---- MODULE Spec2Model ----
(***************************************************************************)
(* A model of the security scanner: the secret detection engine           *)
(* (src/scanner/secret_detector.py with the rule registry of              *)
(* src/patterns/rules.py) and the severity classifier of the dependency   *)
(* scanner (src/scanner/dependency_scanner.py).                           *)
(*                                                                         *)
(* Text is modelled as a sequence of one-character strings, so that       *)
(* slicing, stripping, lower-casing and regular-expression matching are   *)
(* computed character by character as Python computes them.               *)
(***************************************************************************)
EXTENDS Integers, Sequences, FiniteSets, TLC

(***************************************************************************)
(* Characters                                                              *)
(***************************************************************************)
LowerCase ==
    <<"a", "b", "c", "d", "e", "f", "g", "h", "i", "j", "k", "l", "m",
      "n", "o", "p", "q", "r", "s", "t", "u", "v", "w", "x", "y", "z">>

UpperCase ==
    <<"A", "B", "C", "D", "E", "F", "G", "H", "I", "J", "K", "L", "M",
      "N", "O", "P", "Q", "R", "S", "T", "U", "V", "W", "X", "Y", "Z">>

Range(seq) == {seq[i] : i \in 1..Len(seq)}

Lower == Range(LowerCase)

Upper == Range(UpperCase)

Digit == {"0", "1", "2", "3", "4", "5", "6", "7", "8", "9"}

\* the characters str.strip() removes and the regex class \s matches
Whitespace == {" ", "\t", "\n", "\r", "\f"}

Punct ==
    {"_", "-", "=", ":", "\"", "'", "/", "+", "@", "#", ".", ",", "(", ")",
     "*", "!", "?", "<", ">", "[", "]", "{", "}", ";", "$", "%", "&", "|"}

\* the characters of the modelled texts; negated classes are taken in it
Alphabet == Lower \cup Upper \cup Digit \cup Whitespace \cup Punct

\* str.lower() on one character
LowerChar(c) ==
    IF c \in Upper
    THEN LowerCase[CHOOSE i \in 1..26 : UpperCase[i] = c]
    ELSE c

\* str.upper() on one character
UpperChar(c) ==
    IF c \in Lower
    THEN UpperCase[CHOOSE i \in 1..26 : LowerCase[i] = c]
    ELSE c

(***************************************************************************)
(* Regular expressions (the subset of Python's re the registry uses).     *)
(* A pattern is a tagged tuple; Match returns the sequence of end offsets *)
(* of the matches starting at offset i, in the backtracking engine's      *)
(* priority order, so that its head is the match re reports.              *)
(***************************************************************************)
Inf == -1

Set(S) == <<"set", S>>

Cat(rs) == <<"cat", rs>>

Alt(rs) == <<"alt", rs>>

\* cs{lo,hi} for a character class cs, greedy
Rep(cs, lo, hi) == <<"rep", cs, lo, hi>>

\* a literal, case-sensitive
Lit(cs) == Cat([i \in 1..Len(cs) |-> Set({cs[i]})])

\* a literal under re.IGNORECASE
ILit(cs) == Cat([i \in 1..Len(cs) |-> Set({LowerChar(cs[i]), UpperChar(cs[i])})])

Opt(cs) == Rep(cs, 0, 1)

Star(cs) == Rep(cs, 0, Inf)

Plus(cs) == Rep(cs, 1, Inf)

\* \b: the empty string between a \w character and a character that is
\* none, or the start or end of the text
WordBoundary == <<"wordb">>

\* the number of characters of s from offset i on that are in cs
RunLength(cs, s, i) ==
    CHOOSE n \in 0..(Len(s) - i) :
        /\ \A j \in 1..n : s[i + j] \in cs
        /\ n = Len(s) - i \/ s[i + n + 1] \notin cs

\* greedy repetition: the longest run first, then one character less, ...
MatchRep(cs, lo, hi, s, i) ==
    LET run == RunLength(cs, s, i)
        n == IF hi /= Inf /\ run > hi THEN hi ELSE run
    IN  IF n < lo THEN <<>> ELSE [k \in 1..(n - lo + 1) |-> i + n - (k - 1)]

RECURSIVE Match(_, _, _)
RECURSIVE MatchFrom(_, _, _)
RECURSIVE MatchCat(_, _, _, _)
RECURSIVE MatchAlt(_, _, _, _)

Match(re, s, i) ==
    CASE re[1] = "set" ->
           IF i < Len(s) /\ s[i + 1] \in re[2] THEN <<i + 1>> ELSE <<>>
      [] re[1] = "cat" -> MatchCat(re[2], 1, s, <<i>>)
      [] re[1] = "alt" -> MatchAlt(re[2], 1, s, i)
      [] re[1] = "rep" -> MatchRep(re[2], re[3], re[4], s, i)
      [] re[1] = "wordb" ->
           LET w == Lower \cup Upper \cup Digit \cup {"_"}
           IN  IF (i > 0 /\ s[i] \in w) /= (i < Len(s) /\ s[i + 1] \in w)
               THEN <<i>>
               ELSE <<>>

\* the matches of re from each of the offsets starts, in order
MatchFrom(re, s, starts) ==
    IF starts = <<>>
    THEN <<>>
    ELSE Match(re, s, Head(starts)) \o MatchFrom(re, s, Tail(starts))

MatchCat(rs, k, s, starts) ==
    IF k > Len(rs)
    THEN starts
    ELSE MatchCat(rs, k + 1, s, MatchFrom(rs[k], s, starts))

MatchAlt(rs, k, s, i) ==
    IF k > Len(rs)
    THEN <<>>
    ELSE Match(rs[k], s, i) \o MatchAlt(rs, k + 1, s, i)

\* Pattern.finditer: the non-overlapping matches of re in s, left to right,
\* each a span [start, end) of 0-based offsets; the search resumes at the
\* end of the previous match (no pattern of the registry matches the empty
\* string)
RECURSIVE FindIterFrom(_, _, _)
FindIterFrom(re, s, pos) ==
    LET found == {q \in pos..Len(s) : Match(re, s, q) /= <<>>}
    IN  IF found = {}
        THEN <<>>
        ELSE LET q == CHOOSE x \in found : \A y \in found : x <= y
                 e == Head(Match(re, s, q))
             IN  <<[start |-> q, end |-> e]>> \o FindIterFrom(re, s, e)

(***************************************************************************)
(* The rule registry                                                       *)
(***************************************************************************)
WordChar == Lower \cup Upper \cup Digit \cup {"_", "-"}

Quote == {"\"", "'"}

NotSpaceQuote == Alphabet \ (Whitespace \cup Quote)

\* \s*[=:]\s*["']?  the assignment between a key name and its value
Assign ==
    Cat(<<Star(Whitespace), Set({"=", ":"}), Star(Whitespace),
          Opt(Quote)>>)

SECRET_PATTERNS ==
    << [name |-> "API Key",
        pattern |-> Cat(<<Alt(<<Cat(<<ILit(<<"a", "p", "i">>), Opt({"_", "-"}),
                                      ILit(<<"k", "e", "y">>)>>),
                                ILit(<<"a", "p", "i", "k", "e", "y">>)>>),
                          Assign, Rep(WordChar, 20, Inf), Opt(Quote)>>),
        severity |-> "high",
        description |-> "Potential API key found"],
       [name |-> "AWS Access Key",
        pattern |-> Cat(<<Lit(<<"A", "K", "I", "A">>),
                          Rep(Digit \cup Upper, 16, 16)>>),
        severity |-> "critical",
        description |-> "AWS Access Key ID detected"],
       [name |-> "AWS Secret Key",
        pattern |-> Cat(<<Alt(<<Cat(<<ILit(<<"a", "w", "s">>), Opt({"_", "-"}),
                                      ILit(<<"s", "e", "c", "r", "e", "t">>),
                                      Opt({"_", "-"}),
                                      ILit(<<"a", "c", "c", "e", "s", "s">>),
                                      Opt({"_", "-"}),
                                      ILit(<<"k", "e", "y">>)>>),
                                Cat(<<ILit(<<"a", "w", "s">>), Opt({"_", "-"}),
                                      ILit(<<"s", "e", "c", "r", "e", "t">>)>>)>>),
                          Assign,
                          Rep(Lower \cup Upper \cup Digit \cup {"/", "+", "="}, 40, 40),
                          Opt(Quote)>>),
        severity |-> "critical",
        description |-> "AWS Secret Access Key detected"],
       [name |-> "Password",
        pattern |-> Cat(<<Alt(<<ILit(<<"p", "a", "s", "s", "w", "o", "r", "d">>),
                                ILit(<<"p", "a", "s", "s", "w", "d">>),
                                ILit(<<"p", "w", "d">>)>>),
                          Assign, Rep(NotSpaceQuote, 8, Inf), Opt(Quote)>>),
        severity |-> "high",
        description |-> "Potential password found"],
       [name |-> "Private Key",
        pattern |-> Cat(<<Lit(<<"-", "-", "-", "-", "-", "B", "E", "G", "I", "N">>),
                          Plus(Whitespace),
                          Alt(<<Lit(<<"R", "S", "A">>), Lit(<<"D", "S", "A">>),
                                Lit(<<"E", "C">>),
                                Lit(<<"O", "P", "E", "N", "S", "S", "H">>)>>),
                          Plus(Whitespace),
                          Lit(<<"P", "R", "I", "V", "A", "T", "E", " ", "K", "E", "Y",
                                "-", "-", "-", "-", "-">>)>>),
        severity |-> "critical",
        description |-> "Private key file detected"],
       [name |-> "GitHub Token",
        pattern |-> Cat(<<Lit(<<"g", "h", "p", "_">>),
                          Rep(Lower \cup Upper \cup Digit, 36, 36)>>),
        severity |-> "high",
        description |-> "GitHub Personal Access Token detected"],
       [name |-> "Generic Token",
        pattern |-> Cat(<<Alt(<<ILit(<<"t", "o", "k", "e", "n">>),
                                ILit(<<"s", "e", "c", "r", "e", "t">>),
                                ILit(<<"k", "e", "y">>)>>),
                          Assign, Rep(WordChar, 32, Inf), Opt(Quote)>>),
        severity |-> "medium",
        description |-> "Potential token or secret found"],
       [name |-> "Database Connection String",
        pattern |-> Cat(<<Alt(<<ILit(<<"m", "y", "s", "q", "l">>),
                                ILit(<<"p", "o", "s", "t", "g", "r", "e", "s">>),
                                ILit(<<"m", "o", "n", "g", "o", "d", "b">>)>>),
                          Lit(<<":", "/", "/">>), Plus(NotSpaceQuote),
                          Set({":"}), Plus(NotSpaceQuote), Set({"@"})>>),
        severity |-> "high",
        description |-> "Database connection string with credentials"] >>

(***************************************************************************)
(* Python helpers                                                          *)
(***************************************************************************)
Max(a, b) == IF a >= b THEN a ELSE b

Min(a, b) == IF a <= b THEN a ELSE b

\* a slice index as list slicing normalises it: negative counts from the end
SliceIndex(i, n) == IF i < 0 THEN Max(n + i, 0) ELSE Min(i, n)

\* seq[a:b]
Slice(seq, a, b) ==
    SubSeq(seq, SliceIndex(a, Len(seq)) + 1, SliceIndex(b, Len(seq)))

\* ''.join(parts)
RECURSIVE Join(_)
Join(parts) == IF parts = <<>> THEN <<>> ELSE Head(parts) \o Join(Tail(parts))

RECURSIVE LStrip(_)
LStrip(s) ==
    IF s /= <<>> /\ Head(s) \in Whitespace THEN LStrip(Tail(s)) ELSE s

RECURSIVE RStrip(_)
RStrip(s) ==
    IF s /= <<>> /\ s[Len(s)] \in Whitespace
    THEN RStrip(SubSeq(s, 1, Len(s) - 1))
    ELSE s

\* str.strip()
Strip(s) == RStrip(LStrip(s))

Ellipsis == <<".", ".", ".">>

(***************************************************************************)
(* The files on disk                                                       *)
(***************************************************************************)
MaxFiles == 2

MaxLines == 3

SourceText ==
    << <<" ", " ", "#", " ", "c", "o", "n", "f", "i", "g", "\n">>,
       <<"a", "p", "i", "_", "k", "e", "y", " ", "=", " ", "\"", "s", "k", "_",
         "l", "i", "v", "e", "_", "1", "2", "3", "4", "5", "6", "7", "8", "9",
         "0", "a", "b", "c", "d", "e", "f", "g", "h", "i", "j", "k", "l", "m",
         "n", "o", "p", "q", "r", "s", "t", "u", "v", "w", "x", "y", "z", "\"",
         "\n">>,
       <<"\n">>,
       <<"A", "K", "I", "A", "0", "1", "2", "3", "4", "5", "6", "7", "8", "9",
         "A", "B", "C", "D", "E", "F", " ", "A", "K", "I", "A", "A", "B", "C",
         "D", "E", "F", "G", "H", "I", "J", "0", "1", "2", "3", "4", "5", "\n">>,
       <<"p", "w", "d", "=", "h", "u", "n", "t", "e", "r", "2", "s", "e", "c",
         "r", "e", "t", "v", "a", "l", "u", "e", "0", "1", "2", "3", "4", "5",
         "6", "7", "8", "9", "a", "b", "c", "d", "e", "f", "g", "h", "i", "j",
         "k", "l", "m", "n", "o", "p", "q", "r", "\n">>,
       <<"\t", "p", "w", "d", ":", "h", "u", "n", "t", "e", "r", "2", "s", "e",
         "c", "r", "e", "t", "v", "a", "l", "u", "e", "0", "1", "2", "3", "4",
         "5", "6", "7", "8", "9", "a", "b", "c", "d", "e", "f", "g", "h", "i",
         "j", "k", "l", "m", "n", "o", "p", "q", "r", "s", "\n">>,
       <<"t", "o", "k", "e", "n", ":", " ", "g", "h", "p", "_", "a", "b", "c",
         "d", "e", "f", "g", "h", "i", "j", "k", "l", "m", "n", "o", "p", "q",
         "r", "s", "t", "u", "v", "w", "x", "y", "z", "0", "1", "2", "3", "4",
         "5", "6", "7", "8", "9", " ", " ">> >>

\* what f.readlines() can return: the empty file and every run of at most
\* MaxLines consecutive lines of SourceText
Contents ==
    {<<>>} \cup
    UNION {{SubSeq(SourceText, a, b) : b \in a..Min(Len(SourceText), a + MaxLines - 1)} :
             a \in 1..Len(SourceText)}

\* a file is readable, or opening it raises
FileStates ==
    {[error |-> "none", content |-> c] : c \in Contents}
      \cup {[error |-> e, content |-> <<>>] : e \in {"PermissionError", "FileNotFoundError"}}

Paths == <<"app.py", "settings.env", "config.json", "deploy.sh", "ci.yml">>

(***************************************************************************)
(* SecretDetector.scan_file, the body of the loops                         *)
(***************************************************************************)
\* pattern.finditer(line) for each rule of the registry and each line of
\* SourceText, computed once
MatchTable ==
    [k \in 1..Len(SECRET_PATTERNS) |->
       [line \in Range(SourceText) |->
          FindIterFrom(SECRET_PATTERNS[k].pattern, line, 0)]]

\* SECRET_PATTERNS[k]['pattern'].finditer(line)
finditer(k, line) == MatchTable[k][line]

\* match.group(0)
Group0(line, match) == SubSeq(line, match.start + 1, match.end)

\* a faulty variant: the test is len(match.group(0)) >= 50
MatchFieldOffByOne(text) ==
    IF Len(text) >= 50 THEN Slice(text, 0, 50) \o Ellipsis ELSE text

\* match.group(0)[:50] + '...' if len(match.group(0)) > 50 else match.group(0)
MatchField(text) ==
    IF Len(text) > 50 THEN Slice(text, 0, 50) \o Ellipsis ELSE text

\* a faulty variant: two lines before the matched line
ContextStartTwoBefore(line_num) == Max(0, line_num - 3)

ContextStart(line_num) == Max(0, line_num - 2)

\* a faulty variant: the end of the slice is not clamped
ContextEndUnclamped(lines, line_num) == line_num + 1

ContextEnd(lines, line_num) == Min(Len(lines), line_num + 1)

Context(lines, line_num) ==
    Join(Slice(lines, ContextStart(line_num), ContextEnd(lines, line_num)))

\* the dict built for one match
Finding(file_path, lines, line_num, pattern_info, match) ==
    [type |-> "secret",
     name |-> pattern_info.name,
     severity |-> pattern_info.severity,
     description |-> pattern_info.description,
     file |-> file_path,
     line |-> line_num,
     match |-> MatchField(Group0(lines[line_num], match)),
     context |-> Strip(Context(lines, line_num))]

\* a faulty variant: the first rule that matches a line hides the later rules
RECURSIVE LineMatchesFirstRule(_, _)
LineMatchesFirstRule(line, k) ==
    IF k > Len(SECRET_PATTERNS)
    THEN <<>>
    ELSE LET matches == finditer(k, line)
         IN  IF matches /= <<>>
             THEN [j \in 1..Len(matches) |-> [rule |-> k, match |-> matches[j]]]
             ELSE LineMatchesFirstRule(line, k + 1)

\* a faulty variant: the rules are visited from the last to the first
RECURSIVE LineMatchesReversed(_, _)
LineMatchesReversed(line, k) ==
    IF k > Len(SECRET_PATTERNS)
    THEN <<>>
    ELSE LET matches == finditer(k, line)
         IN  LineMatchesReversed(line, k + 1)
               \o [j \in 1..Len(matches) |-> [rule |-> k, match |-> matches[j]]]

\* the two inner loops, "for pattern_info in self.patterns" and
\* "for match in matches": the (rule, match) pairs in the order visited
RECURSIVE LineMatches(_, _)
LineMatches(line, k) ==
    IF k > Len(SECRET_PATTERNS)
    THEN <<>>
    ELSE LET matches == finditer(k, line)
         IN  [j \in 1..Len(matches) |-> [rule |-> k, match |-> matches[j]]]
               \o LineMatches(line, k + 1)

\* the Findings appended while the outer loop is on line line_num
LineFindings(file_path, lines, line_num) ==
    LET visited == LineMatches(lines[line_num], 1)
    IN  [j \in 1..Len(visited) |->
           Finding(file_path, lines, line_num,
                   SECRET_PATTERNS[visited[j].rule], visited[j].match)]

\* what each visit of the loop body computed: the line, the rule's position
\* in the registry, the match's span and the bounds of the context slice
LineTrace(lines, line_num) ==
    LET visited == LineMatches(lines[line_num], 1)
    IN  [j \in 1..Len(visited) |->
           [line_num |-> line_num,
            rule |-> visited[j].rule,
            start |-> visited[j].match.start,
            end |-> visited[j].match.end,
            context_start |-> ContextStart(line_num),
            context_end |-> ContextEnd(lines, line_num)]]

\* a faulty variant: the handler is "except FileNotFoundError"
CaughtNotFoundOnly(e) == e = "FileNotFoundError"

\* the exceptions "except Exception" catches
Caught(e) == e \in {"PermissionError", "FileNotFoundError", "OSError", "Exception"}

\* a faulty variant: the new Findings are put in front
ExtendFront(list, items) == items \o list

\* all_findings.extend(findings)
Extend(list, items) == list \o items

(***************************************************************************)
(* DependencyScanner._determine_severity                                   *)
(*                                                                         *)
(* A dict is a function whose domain is its keys.  A CVSS score is held   *)
(* in tenths, so 9.0 is 90.                                                *)
(***************************************************************************)
EmptyDict == [k \in {} |-> 0]

\* dict.get(key, default)
Get(dict, key, default) == IF key \in DOMAIN dict THEN dict[key] ELSE default

\* str.lower()
LowerStr(s) == [i \in 1..Len(s) |-> LowerChar(s[i])]

\* sub in s
Contains(sub, s) ==
    \E i \in 0..(Len(s) - Len(sub)) : SubSeq(s, i + 1, i + Len(sub)) = sub

\* a faulty variant: the thresholds are exclusive
ScoreSeverityExclusive(score) ==
    IF score > 90 THEN "critical"
    ELSE IF score > 70 THEN "high"
    ELSE IF score > 40 THEN "medium"
    ELSE "low"

\* the branch taken when the record carries a cvss_score
ScoreSeverity(score) ==
    IF score >= 90 THEN "critical"
    ELSE IF score >= 70 THEN "high"
    ELSE IF score >= 40 THEN "medium"
    ELSE "low"

\* a faulty variant: the text is not lower-cased
TextSeverityCaseSensitive(text) ==
    IF Contains(<<"c", "r", "i", "t", "i", "c", "a", "l">>, text) THEN "critical"
    ELSE IF Contains(<<"h", "i", "g", "h">>, text) THEN "high"
    ELSE IF Contains(<<"m", "e", "d", "i", "u", "m">>, text) THEN "medium"
    ELSE "low"

\* the branch taken when the record carries a severity text
TextSeverity(text) ==
    LET sev == LowerStr(text)
    IN  IF Contains(<<"c", "r", "i", "t", "i", "c", "a", "l">>, sev) THEN "critical"
        ELSE IF Contains(<<"h", "i", "g", "h">>, sev) THEN "high"
        ELSE IF Contains(<<"m", "e", "d", "i", "u", "m">>, sev) THEN "medium"
        ELSE "low"

\* a faulty variant: an unknown severity is taken as low
DefaultSeverityLow == "low"

\* the value returned when the record carries no severity information
DefaultSeverity == "high"

\* a faulty variant: the severity text is consulted before the score
DetermineSeverityTextFirst(v) ==
    LET db_specific == Get(v, "database_specific", EmptyDict)
    IN  IF "severity" \in DOMAIN db_specific
        THEN TextSeverity(db_specific["severity"])
        ELSE IF "cvss_score" \in DOMAIN db_specific
        THEN ScoreSeverity(db_specific["cvss_score"])
        ELSE DefaultSeverity

\* _determine_severity: the score if there is one, else the text, else high
_determine_severity(v) ==
    LET db_specific == Get(v, "database_specific", EmptyDict)
    IN  IF "cvss_score" \in DOMAIN db_specific
        THEN ScoreSeverity(db_specific["cvss_score"])
        ELSE IF "severity" \in DOMAIN db_specific
        THEN TextSeverity(db_specific["severity"])
        ELSE DefaultSeverity

(***************************************************************************)
(* Advisory records                                                        *)
(***************************************************************************)
\* how far below 0.0 the modelled scores go, in tenths
BelowZero == 5

MaxScore == 105

MaxWords == 2

Scores == (0 - BelowZero)..MaxScore

Words ==
    { <<"C", "R", "I", "T", "I", "C", "A", "L">>,
      <<"H", "I", "G", "H">>,
      <<"H", "i", "g", "h">>,
      <<"m", "e", "d", "i", "u", "m">>,
      <<"M", "O", "D", "E", "R", "A", "T", "E">>,
      <<"L", "O", "W">>,
      <<"-", "i", "s", "h">>,
      <<"h", "i", "g">> }

\* the texts of at most n words
RECURSIVE Texts(_)
Texts(n) ==
    IF n = 0
    THEN {<<>>}
    ELSE Texts(n - 1) \cup {t \o w : t \in Texts(n - 1), w \in Words}

SeverityTexts == Texts(MaxWords)

DatabaseSpecifics ==
    {EmptyDict}
      \cup {[cvss_score |-> s] : s \in Scores}
      \cup {[severity |-> t] : t \in SeverityTexts}
      \cup {[cvss_score |-> s, severity |-> t] : s \in Scores, t \in SeverityTexts}

VulnRecords ==
    {EmptyDict, [id |-> "GHSA-1"]}
      \cup {[database_specific |-> d] : d \in DatabaseSpecifics}
      \cup {[id |-> "GHSA-1", database_specific |-> d] : d \in DatabaseSpecifics}

(***************************************************************************)
(* Reporter                                                                *)
(*                                                                         *)
(* The console report is modelled as the sequence of its blocks: a header *)
(* per severity group, a block per Finding, the summary; the JSON report  *)
(* as the document tree json.dumps writes, an object being the sequence   *)
(* of its members.                                                         *)
(***************************************************************************)
\* Reporter.severity_order
severity_order == [critical |-> 0, high |-> 1, medium |-> 2, low |-> 3]

\* a faulty variant: an unknown severity sorts first
OrderKeyUnknownFirst(x) ==
    IF x \in DOMAIN severity_order THEN severity_order[x] + 1 ELSE 0

\* self.severity_order.get(x, 99)
OrderKey(x) == IF x \in DOMAIN severity_order THEN severity_order[x] ELSE 99

\* the keys of by_severity, in the order the grouping loop inserts them
RECURSIVE GroupKeys(_)
GroupKeys(fs) ==
    IF fs = <<>>
    THEN <<>>
    ELSE LET before == GroupKeys(SubSeq(fs, 1, Len(fs) - 1))
             last == fs[Len(fs)].severity
         IN  IF last \in Range(before) THEN before ELSE Append(before, last)

\* sorted(keys, key=...): a stable sort, by minimum extraction
RECURSIVE SortedByKey(_)
SortedByKey(keys) ==
    IF keys = <<>>
    THEN <<>>
    ELSE LET i == CHOOSE a \in 1..Len(keys) :
                     /\ \A b \in 1..Len(keys) : OrderKey(keys[a]) <= OrderKey(keys[b])
                     /\ \A b \in 1..(a - 1) : OrderKey(keys[b]) /= OrderKey(keys[a])
         IN  <<keys[i]>>
               \o SortedByKey(SubSeq(keys, 1, i - 1) \o SubSeq(keys, i + 1, Len(keys)))

\* by_severity[severity]
BySeverity(fs, sev) == SelectSeq(fs, LAMBDA f : f.severity = sev)

\* str.split(sep) for a one-character separator
RECURSIVE Split(_, _)
Split(s, sep) ==
    IF \A i \in 1..Len(s) : s[i] /= sep
    THEN <<s>>
    ELSE LET i == CHOOSE a \in 1..Len(s) :
                     s[a] = sep /\ \A b \in 1..(a - 1) : s[b] /= sep
         IN  <<SubSeq(s, 1, i - 1)>> \o Split(SubSeq(s, i + 1, Len(s)), sep)

\* the lines printed for one Finding
FindingBlock(finding) ==
    [kind |-> "finding",
     type |-> finding.type,
     name |-> finding.name,
     file |-> finding.file,
     line |-> finding.line,
     description |-> finding.description,
     match |-> finding.match,
     context |-> Split(finding.context, "\n")]

\* the header of a severity group and the blocks of its Findings
GroupBlocks(fs, sev) ==
    <<[kind |-> "header", severity |-> sev, count |-> Len(BySeverity(fs, sev))]>>
      \o [i \in 1..Len(BySeverity(fs, sev)) |-> FindingBlock(BySeverity(fs, sev)[i])]

RECURSIVE AllGroupBlocks(_, _)
AllGroupBlocks(fs, sevs) ==
    IF sevs = <<>>
    THEN <<>>
    ELSE GroupBlocks(fs, Head(sevs)) \o AllGroupBlocks(fs, Tail(sevs))

\* Reporter.format_console: the report, or the KeyError of the first
\* Finding that lacks a key the loop reads
format_console(fs) ==
    IF fs = <<>>
    THEN [status |-> "ok", output |-> <<[kind |-> "no_issues"]>>]
    ELSE IF \E i \in 1..Len(fs) : "severity" \notin DOMAIN fs[i]
    THEN [status |-> "KeyError", output |-> <<>>]
    ELSE IF \E i \in 1..Len(fs) : ~({"type", "name", "file", "line", "description", "match",
                                    "context"} \subseteq DOMAIN fs[i])
    THEN [status |-> "KeyError", output |-> <<>>]
    ELSE LET sorted_severities == SortedByKey(GroupKeys(fs))
         IN  [status |-> "ok",
              output |->
                <<[kind |-> "title"]>>
                  \o AllGroupBlocks(fs, sorted_severities)
                  \o <<[kind |-> "summary"]>>
                  \o [i \in 1..Len(sorted_severities) |->
                        [kind |-> "count",
                         severity |-> sorted_severities[i],
                         count |-> Len(BySeverity(fs, sorted_severities[i]))]]
                  \o <<[kind |-> "total", count |-> Len(fs)]>>]

\* the JSON object written for a dict: its members, in the order in which
\* the detectors' dict literals insert their keys
JsonObject(dict) ==
    LET order == <<"type", "name", "severity", "description", "file", "line",
                   "match", "context", "package", "version", "ecosystem",
                   "vuln_id", "details", "references", "recommendation">>
        keys == SelectSeq(order, LAMBDA k : k \in DOMAIN dict)
    IN  [i \in 1..Len(keys) |-> <<keys[i], dict[keys[i]]>>]

\* a faulty variant: the Findings are written most severe first
format_json_sorted(fs) ==
    LET sorted == BySeverity(fs, "critical") \o BySeverity(fs, "high")
                    \o BySeverity(fs, "medium") \o BySeverity(fs, "low")
    IN  << <<"total", Len(fs)>>,
           <<"findings", [i \in 1..Len(sorted) |-> JsonObject(sorted[i])]>> >>

\* Reporter.format_json
format_json(fs) ==
    << <<"total", Len(fs)>>,
       <<"findings", [i \in 1..Len(fs) |-> JsonObject(fs[i])]>> >>


(***************************************************************************)
(* VulnerabilityScanner: the Detection Engine of the secret scan against  *)
(* the vulnerability rule set, on the code files                          *)
(***************************************************************************)
\* name, severity and description of the rules of VULNERABILITY_PATTERNS
VULNERABILITY_PATTERNS ==
    << [name |-> "SQL Injection Risk",
        pattern |-> Cat(<<Alt(<<ILit(<<"e", "x", "e", "c", "u", "t", "e">>),
                                ILit(<<"q", "u", "e", "r", "y">>),
                                ILit(<<"e", "x", "e", "c">>)>>),
                          Star(Whitespace), Set({"("}), Star(Alphabet \ {")"}),
                          Set({"+"}), Star(Alphabet \ {"\n"}), Set(Quote)>>),
        severity |-> "high",
        description |-> "Potential SQL injection vulnerability - string concatenation in query"],
       [name |-> "Eval Usage",
        pattern |-> Cat(<<WordBoundary, Lit(<<"e", "v", "a", "l">>),
                          Star(Whitespace), Set({"("})>>),
        severity |-> "high",
        description |-> "Use of eval() can be dangerous - allows code execution"],
       [name |-> "Exec Usage",
        pattern |-> Cat(<<WordBoundary, Lit(<<"e", "x", "e", "c">>),
                          Star(Whitespace), Set({"("})>>),
        severity |-> "high",
        description |-> "Use of exec() can be dangerous - allows code execution"],
       [name |-> "Hardcoded IP Address",
        pattern |-> Cat(<<WordBoundary,
                          Rep(Digit, 1, 3), Set({"."}), Rep(Digit, 1, 3), Set({"."}),
                          Rep(Digit, 1, 3), Set({"."}), Rep(Digit, 1, 3),
                          WordBoundary>>),
        severity |-> "low",
        description |-> "Hardcoded IP address found"],
       [name |-> "Insecure Random",
        pattern |-> Cat(<<Lit(<<"r", "a", "n", "d", "o", "m", ".">>),
                          Alt(<<Lit(<<"r", "a", "n", "d", "o", "m">>),
                                Lit(<<"r", "a", "n", "d", "i", "n", "t">>),
                                Lit(<<"c", "h", "o", "i", "c", "e">>)>>),
                          Star(Whitespace), Set({"("})>>),
        severity |-> "medium",
        description |-> "Use of insecure random - consider secrets module for crypto"],
       [name |-> "Shell Command Injection",
        pattern |-> Cat(<<Alt(<<ILit(<<"o", "s", ".", "s", "y", "s", "t", "e", "m">>),
                                ILit(<<"s", "u", "b", "p", "r", "o", "c", "e", "s", "s",
                                       ".", "c", "a", "l", "l">>),
                                ILit(<<"s", "u", "b", "p", "r", "o", "c", "e", "s", "s",
                                       ".", "P", "o", "p", "e", "n">>)>>),
                          Star(Whitespace), Set({"("}), Star(Alphabet \ {")"}),
                          Set({"+"})>>),
        severity |-> "high",
        description |-> "Potential shell command injection - string concatenation in system call"] >>

\* the Finding of one match of a vulnerability rule
VulnerabilityFinding(file_path, line_num, pattern_info, match, context) ==
    [type |-> "vulnerability",
     name |-> pattern_info.name,
     severity |-> pattern_info.severity,
     description |-> pattern_info.description,
     file |-> file_path,
     line |-> line_num,
     match |-> match,
     context |-> context]

(***************************************************************************)
(* DependencyScanner.check_vulnerability and scan_directory               *)
(*                                                                         *)
(* An advisory record as it arrives from the service is a dict whose      *)
(* database_specific entry and whose cvss_score and severity entries      *)
(* carry their JSON type: [num |-> n], [str |-> text], [dict |-> d] or    *)
(* [null |-> TRUE].  Python raises where the type does not fit.           *)
(***************************************************************************)
Null == [null |-> TRUE]

\* the exception _determine_severity raises on an advisory record, or
\* "none": 'cvss_score' in None, str >= float, None.lower()
SeverityError(advisory) ==
    IF "database_specific" \notin DOMAIN advisory
    THEN "none"
    ELSE LET db_specific == advisory["database_specific"]
         IN  IF db_specific = Null
             THEN "TypeError"
             ELSE IF "cvss_score" \in DOMAIN db_specific.dict
             THEN IF DOMAIN db_specific.dict["cvss_score"] = {"num"} THEN "none"
                  ELSE "TypeError"
             ELSE IF "severity" \in DOMAIN db_specific.dict
             THEN IF DOMAIN db_specific.dict["severity"] = {"str"} THEN "none"
                  ELSE "AttributeError"
             ELSE "none"

\* the advisory record as _determine_severity reads it when no type error
\* occurs
AsVuln(advisory) ==
    IF "database_specific" \in DOMAIN advisory
    THEN LET d == advisory["database_specific"].dict
         IN  [database_specific |->
                [k \in DOMAIN d |-> IF DOMAIN d[k] = {"num"} THEN d[k].num
                                    ELSE d[k].str]]
    ELSE EmptyDict

\* the dict built for one advisory record of a package
DependencyFinding(pkg, advisory) ==
    [type |-> "dependency",
     name |-> <<"Vulnerable", pkg.name>>,
     severity |-> _determine_severity(AsVuln(advisory)),
     description |-> Get(advisory, "summary", "No description available"),
     package |-> pkg.name,
     version |-> pkg.version,
     ecosystem |-> Get(pkg, "ecosystem", "PyPI"),
     file |-> pkg.file,
     vuln_id |-> Get(advisory, "id", "Unknown"),
     details |-> Get(advisory, "details", ""),
     references |-> Get(advisory, "references", <<>>)]

\* "for vuln in vulns": the Findings appended, up to the first advisory
\* record on which _determine_severity raises
RECURSIVE PackageFindings(_, _)
PackageFindings(pkg, vulns) ==
    IF vulns = <<>> \/ SeverityError(Head(vulns)) /= "none"
    THEN <<>>
    ELSE <<DependencyFinding(pkg, Head(vulns))>> \o PackageFindings(pkg, Tail(vulns))

\* the exception the loop over vulns ends with, or "none"
RECURSIVE PackageError(_)
PackageError(vulns) ==
    IF vulns = <<>>
    THEN "none"
    ELSE IF SeverityError(Head(vulns)) /= "none"
    THEN SeverityError(Head(vulns))
    ELSE PackageError(Tail(vulns))

\* a faulty variant: only "except requests.exceptions.RequestException"
LookupCaughtRequestOnly(e) == e \in {"ConnectionError", "Timeout", "HTTPError"}

\* "except requests.exceptions.RequestException" and "except Exception"
LookupCaught(e) ==
    \/ e \in {"ConnectionError", "Timeout", "HTTPError"}
    \/ e \in {"ValueError", "AttributeError", "Exception"}

\* version is None or empty
NoVersion == ""

\* what the advisory service does with one request: the call raises
\* (transport error, timeout), the status is not 2xx (raise_for_status
\* raises HTTPError), the body is no JSON (response.json() raises
\* ValueError), the body is JSON but no object (data.get raises
\* AttributeError), or the body is an object with the list vulns
\* a faulty variant: a failed request is sent a second time
CheckVulnerabilityRetry(package, version, ecosystem, reply) ==
    IF version = NoVersion
    THEN [vulns |-> <<>>, success |-> FALSE, raised |-> "none", requests |-> 0]
    ELSE IF reply.error = "none"
    THEN [vulns |-> reply.vulns, success |-> TRUE, raised |-> "none",
          requests |-> 1]
    ELSE [vulns |-> <<>>, success |-> FALSE, raised |-> "none", requests |-> 2]

\* check_vulnerability: the tuple returned, or the exception that escapes,
\* and the number of requests sent to the service (requests.post is called
\* once, outside any loop)
check_vulnerability(package, version, ecosystem, reply) ==
    IF version = NoVersion
    THEN [vulns |-> <<>>, success |-> FALSE, raised |-> "none", requests |-> 0]
    ELSE IF reply.error = "none"
    THEN [vulns |-> reply.vulns, success |-> TRUE, raised |-> "none",
          requests |-> 1]
    ELSE IF LookupCaught(reply.error)
    THEN [vulns |-> <<>>, success |-> FALSE, raised |-> "none", requests |-> 1]
    ELSE [vulns |-> <<>>, success |-> FALSE, raised |-> reply.error,
          requests |-> 1]

\* a faulty variant: vulnerabilities_found counts the vulnerable packages
PackageStepCountsPackages(pkg, reply) ==
    IF Get(pkg, "version", NoVersion) = NoVersion
    THEN [checked |-> 0, found |-> 0, findings |-> <<>>, raised |-> "none"]
    ELSE LET r == check_vulnerability(pkg.name, pkg.version,
                                      Get(pkg, "ecosystem", "PyPI"), reply)
         IN  IF r.raised /= "none"
             THEN [checked |-> 1, found |-> 0, findings |-> <<>>,
                   raised |-> r.raised]
             ELSE [checked |-> 1, found |-> IF r.vulns = <<>> THEN 0 ELSE 1,
                   findings |-> PackageFindings(pkg, r.vulns),
                   raised |-> PackageError(r.vulns)]

\* one iteration of "for pkg in all_packages": whether the package was
\* checked, len(vulns), the Findings appended and the exception raised
PackageStep(pkg, reply) ==
    IF Get(pkg, "version", NoVersion) = NoVersion
    THEN [checked |-> 0, found |-> 0, findings |-> <<>>, raised |-> "none"]
    ELSE LET r == check_vulnerability(pkg.name, pkg.version,
                                      Get(pkg, "ecosystem", "PyPI"), reply)
         IN  IF r.raised /= "none"
             THEN [checked |-> 1, found |-> 0, findings |-> <<>>,
                   raised |-> r.raised]
             ELSE [checked |-> 1, found |-> Len(r.vulns),
                   findings |-> PackageFindings(pkg, r.vulns),
                   raised |-> PackageError(r.vulns)]

\* the loop over all_packages: the Findings returned, or the exception
\* that ends scan_directory
RECURSIVE ScanPackages(_, _)
ScanPackages(packages, replies) ==
    IF packages = <<>>
    THEN [raised |-> "none", findings |-> <<>>]
    ELSE LET step == PackageStep(Head(packages), Head(replies))
             rest == ScanPackages(Tail(packages), Tail(replies))
         IN  IF step.raised /= "none"
             THEN [raised |-> step.raised, findings |-> <<>>]
             ELSE IF rest.raised /= "none"
             THEN rest
             ELSE [raised |-> "none", findings |-> step.findings \o rest.findings]

(***************************************************************************)
(* Packages and advisory records                                           *)
(***************************************************************************)
MaxPackages == 3

MaxVulns == 2

\* the packages the manifests list, as parse_requirements_txt and
\* parse_package_json return them
PackageList ==
    <<[name |-> "flask", version |-> "0.12", file |-> "requirements.txt"],
      [name |-> "lodash", version |-> "4.17.4", file |-> "package.json"],
      [name |-> "requests", version |-> NoVersion, file |-> "requirements.txt"]>>

Advisories ==
    {[id |-> "GHSA-1", summary |-> "Remote code execution",
      database_specific |-> [dict |-> [cvss_score |-> [num |-> 95]]]],
     [id |-> "GHSA-2",
      database_specific |-> [dict |-> [severity |-> [str |-> <<"L", "O", "W">>]]]],
     [id |-> "PYSEC-3", summary |-> "Denial of service"],
     [id |-> "GHSA-4",
      database_specific |-> [dict |-> [cvss_score |-> [str |-> <<"9", ".", "8">>]]]],
     [id |-> "GHSA-5", database_specific |-> Null],
     [id |-> "GHSA-6", database_specific |-> [dict |-> [severity |-> Null]]]}

\* the sequences of at most n elements of a set
RECURSIVE ListsOver(_, _)
ListsOver(pool, n) ==
    IF n = 0
    THEN {<<>>}
    ELSE ListsOver(pool, n - 1)
           \cup {Append(l, a) : l \in {x \in ListsOver(pool, n - 1) : Len(x) = n - 1},
                                a \in pool}

Replies ==
    {[error |-> "none", vulns |-> l] : l \in ListsOver(Advisories, MaxVulns)}
      \cup {[error |-> e, vulns |-> <<>>] :
              e \in {"ConnectionError", "Timeout", "HTTPError", "ValueError",
                     "AttributeError"}}

\* what a manifest parses to
ParsedPackages(dep_file) ==
    SelectSeq(SubSeq(PackageList, 1, Min(MaxPackages, Len(PackageList))),
              LAMBDA pkg : pkg.file = dep_file)

\* "for dep_file in dep_files": the packages of the supported manifests,
\* each with its ecosystem
RECURSIVE ParseAll(_)
ParseAll(files) ==
    IF files = <<>>
    THEN <<>>
    ELSE LET dep_file == Head(files)
             packages == ParsedPackages(dep_file)
             ecosystem == IF dep_file = "requirements.txt" THEN "PyPI" ELSE "npm"
         IN  (IF dep_file \in {"requirements.txt", "package.json"}
              THEN [i \in 1..Len(packages) |->
                      [name |-> packages[i].name,
                       version |-> packages[i].version,
                       file |-> packages[i].file,
                       ecosystem |-> ecosystem]]
              ELSE <<>>)
               \o ParseAll(Tail(files))

\* DependencyScanner.scan_directory as a whole
DependencyScan(files, replies) ==
    IF files = <<>>
    THEN [raised |-> "none", findings |-> <<>>]
    ELSE ScanPackages(ParseAll(files), replies)

(***************************************************************************)
(* LLMScanner._call_gemini_api and _parse_findings                         *)
(*                                                                         *)
(* The response text is a sequence of characters in which a whole JSON    *)
(* document is one element, the name of an entry of JsonDocuments.        *)
(***************************************************************************)
RawFindings ==
    [auth |-> [type |-> "llm_analysis", name |-> "Missing authentication",
               severity |-> [str |-> "critical"], description |-> "No auth check",
               file |-> "api.py", line |-> 12, recommendation |-> "Add a check"],
     hash |-> [name |-> "Weak hash", severity |-> [str |-> "HIGH"],
               file |-> "auth.py", line |-> 7],
     errors |-> [name |-> "Verbose errors", description |-> "Stack traces shown"],
     cors |-> [name |-> "CORS wildcard", severity |-> Null, file |-> "app.py"],
     cookie |-> [name |-> "Cookie without Secure", severity |-> [str |-> "low"],
                 line |-> 0]]

\* what json.loads returns for each document: an object as a dict, and an
\* array as [array |-> its elements]
JsonDocuments ==
    [DOC_EMPTY |-> [dict |-> EmptyDict],
     DOC_NOTE |-> [dict |-> [note |-> "nothing found"]],
     DOC_NONE |-> [dict |-> [findings |-> <<>>]],
     DOC_ONE |-> [dict |-> [findings |-> <<RawFindings.auth>>]],
     DOC_TWO |-> [dict |-> [findings |-> <<RawFindings.hash, RawFindings.cookie>>]],
     DOC_THREE |-> [dict |-> [findings |-> <<RawFindings.errors, RawFindings.cors,
                                             RawFindings.auth>>]],
     DOC_ARRAY |-> [array |-> <<RawFindings.auth>>]]

\* three grave accents (U+0060, which a TLA+ string cannot hold)
Fence == <<"GRAVE", "GRAVE", "GRAVE">>

FenceJson == Fence \o <<"j", "s", "o", "n">>

\* str.find(sub, start): the offset of the first occurrence at or after
\* start, or -1
Find(s, sub, start) ==
    LET at == {i \in start..(Len(s) - Len(sub)) : SubSeq(s, i + 1, i + Len(sub)) = sub}
    IN  IF at = {} THEN -1 ELSE CHOOSE i \in at : \A j \in at : i <= j

\* the text between the fences of a code block, if the response has one
StripFence(response_text) ==
    IF Find(response_text, FenceJson, 0) >= 0
    THEN LET start == Find(response_text, FenceJson, 0) + 7
             end == Find(response_text, Fence, start)
         IN  IF end > start THEN Strip(Slice(response_text, start, end))
             ELSE response_text
    ELSE IF Find(response_text, Fence, 0) >= 0
    THEN LET start == Find(response_text, Fence, 0) + 3
             end == Find(response_text, Fence, start)
         IN  IF end > start THEN Strip(Slice(response_text, start, end))
             ELSE response_text
    ELSE response_text

\* json.loads: the document, or [error |-> "JSONDecodeError"]
JsonLoads(text) ==
    IF Len(Strip(text)) = 1 /\ Strip(text)[1] \in DOMAIN JsonDocuments
    THEN JsonDocuments[Strip(text)[1]]
    ELSE [error |-> "JSONDecodeError"]

None == [none |-> TRUE]

\* a faulty variant: only "except json.JSONDecodeError"
ApiCaughtJsonOnly(e) == e = "JSONDecodeError"

\* "except json.JSONDecodeError" and "except Exception"
ApiCaught(e) ==
    e \in {"JSONDecodeError", "ServerError", "DeadlineExceeded", "Exception"}

\* _call_gemini_api: the parsed response, or None when both calls or the
\* parsing raised an exception the handlers catch; reply.first and
\* reply.second are what the service does with the call and with the
\* alternative call: [text |-> t] or [error |-> e]
call_gemini_api(reply) ==
    LET response == IF "error" \in DOMAIN reply.first THEN reply.second
                    ELSE reply.first
        parsed == JsonLoads(StripFence(Strip(response.text)))
        raised == IF "error" \in DOMAIN response THEN response.error
                  ELSE IF "error" \in DOMAIN parsed THEN parsed.error
                  ELSE "none"
    IN  IF raised = "none" THEN [raised |-> "none", value |-> parsed]
        ELSE IF ApiCaught(raised) THEN [raised |-> "none", value |-> None]
        ELSE [raised |-> raised, value |-> None]

\* "if not api_response": None, an empty dict, an empty list
Falsy(api_response) ==
    \/ api_response = None
    \/ "dict" \in DOMAIN api_response /\ DOMAIN api_response.dict = {}
    \/ "array" \in DOMAIN api_response /\ api_response.array = <<>>

\* a faulty variant: the severity of the response is kept as it is
ValidSeverityUnchecked(finding) ==
    IF "severity" \in DOMAIN finding /\ DOMAIN finding["severity"] = {"str"}
    THEN finding["severity"].str
    ELSE "medium"

\* finding.get('severity', 'medium'), replaced by 'medium' when it is not
\* one of the four levels
ValidSeverity(finding) ==
    IF /\ "severity" \in DOMAIN finding
       /\ DOMAIN finding["severity"] = {"str"}
       /\ finding["severity"].str \in {"critical", "high", "medium", "low"}
    THEN finding["severity"].str
    ELSE "medium"

\* standard_finding
StandardFinding(finding) ==
    [type |-> Get(finding, "type", "llm_analysis"),
     name |-> Get(finding, "name", "Security Issue"),
     severity |-> ValidSeverity(finding),
     description |-> Get(finding, "description", "No description provided"),
     file |-> Get(finding, "file", "Unknown"),
     line |-> Get(finding, "line", 0),
     recommendation |-> Get(finding, "recommendation", "No recommendation provided")]

\* _parse_findings: the Findings, or the AttributeError of .get on a list
parse_findings(api_response) ==
    IF Falsy(api_response)
    THEN [raised |-> "none", findings |-> <<>>]
    ELSE IF "array" \in DOMAIN api_response
    THEN [raised |-> "AttributeError", findings |-> <<>>]
    ELSE LET response_findings == Get(api_response.dict, "findings", <<>>)
         IN  [raised |-> "none",
              findings |-> [i \in 1..Len(response_findings) |->
                              StandardFinding(response_findings[i])]]

\* what the service does with the call and with the alternative call
ApiReplies ==
    LET errors == {[error |-> "ServerError"], [error |-> "DeadlineExceeded"]}
        texts ==
            {pre \o open \o <<"\n">> \o body \o <<"\n">> \o close \o <<" ">> :
                pre \in {<<>>, <<"H", "e", "r", "e", ":", "\n">>},
                open \in {<<>>, Fence, FenceJson},
                body \in {<<d>> : d \in DOMAIN JsonDocuments}
                           \cup {<<"o", "o", "p", "s">>, <<"DOC_ONE", ",">>},
                close \in {<<>>, Fence}}
    IN  {[first |-> [text |-> t], second |-> [text |-> t]] : t \in texts}
          \cup {[first |-> e, second |-> [text |-> <<d>>]] :
                   e \in errors, d \in DOMAIN JsonDocuments}
          \cup {[first |-> e, second |-> e2] : e \in errors, e2 \in errors}

(***************************************************************************)
(* FileScanner                                                             *)
(*                                                                         *)
(* A path is the sequence of its segments (Path(path).parts), a segment   *)
(* the sequence of its characters.                                        *)
(***************************************************************************)
CODE_FILE_EXTENSIONS ==
    {<<".", "p", "y">>, <<".", "j", "s">>, <<".", "t", "s">>,
     <<".", "j", "a", "v", "a">>, <<".", "g", "o">>, <<".", "r", "b">>,
     <<".", "p", "h", "p">>, <<".", "c", "p", "p">>, <<".", "c">>,
     <<".", "h">>, <<".", "c", "s">>, <<".", "s", "w", "i", "f", "t">>,
     <<".", "k", "t">>, <<".", "s", "c", "a", "l", "a">>,
     <<".", "r", "s">>, <<".", "s", "h">>, <<".", "b", "a", "s", "h">>,
     <<".", "z", "s", "h">>}

CONFIG_FILE_EXTENSIONS ==
    {<<".", "j", "s", "o", "n">>, <<".", "y", "a", "m", "l">>,
     <<".", "y", "m", "l">>, <<".", "t", "o", "m", "l">>,
     <<".", "i", "n", "i">>, <<".", "c", "o", "n", "f">>,
     <<".", "c", "o", "n", "f", "i", "g">>, <<".", "e", "n", "v">>,
     <<".", "p", "r", "o", "p", "e", "r", "t", "i", "e", "s">>,
     <<".", "x", "m", "l">>}

IGNORE_PATTERNS ==
    {<<"v", "e", "n", "v">>, <<"e", "n", "v">>,
     <<".", "v", "e", "n", "v">>,
     <<"_", "_", "p", "y", "c", "a", "c", "h", "e", "_", "_">>,
     <<"n", "o", "d", "e", "_", "m", "o", "d", "u", "l", "e", "s">>,
     <<".", "g", "i", "t">>,
     <<".", "p", "y", "t", "e", "s", "t", "_", "c", "a", "c", "h", "e">>,
     <<"d", "i", "s", "t">>, <<"b", "u", "i", "l", "d">>,
     <<".", "i", "d", "e", "a">>, <<".", "v", "s", "c", "o", "d", "e">>}

\* should_ignore: some segment of the path is in the ignore set
should_ignore(path) == \E i \in 1..Len(path) : path[i] \in IGNORE_PATTERNS

\* Path(file_path).suffix: the part of the last segment from its last dot,
\* empty when the dot is the first or the last character or there is none
Suffix(path) ==
    LET name == path[Len(path)]
        dots == {i \in 1..Len(name) : name[i] = "."}
        last == CHOOSE i \in dots : \A j \in dots : j <= i
    IN  IF dots = {} THEN <<>>
        ELSE IF last = 1 \/ last = Len(name) THEN <<>>
        ELSE SubSeq(name, last, Len(name))

\* is_code_file
is_code_file(file_path) == LowerStr(Suffix(file_path)) \in CODE_FILE_EXTENSIONS

\* is_config_file
is_config_file(file_path) == LowerStr(Suffix(file_path)) \in CONFIG_FILE_EXTENSIONS

\* the test of the loops of get_scannable_files on one file
Scannable(file_path) ==
    /\ ~should_ignore(file_path)
    /\ is_code_file(file_path) \/ is_config_file(file_path)

\* the files a tree may hold, in the order the directory listings give them
MaxEntries == 6

EntryList ==
    <<<<<<"p", "r", "o", "j">>, <<"a", "p", "p", ".", "p", "y">>>>,
      <<<<"p", "r", "o", "j">>, <<"n", "o", "t", "e", "s", ".", "t", "x", "t">>>>,
      <<<<"p", "r", "o", "j">>, <<"n", "o", "d", "e", "_", "m", "o", "d", "u", "l", "e", "s">>, <<"l", "i", "b", ".", "j", "s">>>>,
      <<<<"p", "r", "o", "j">>, <<"s", "r", "c">>, <<"M", "a", "i", "n", ".", "J", "A", "V", "A">>>>,
      <<<<"p", "r", "o", "j">>, <<".", "e", "n", "v">>>>,
      <<<<"p", "r", "o", "j">>, <<"s", "r", "c">>, <<"c", "o", "n", "f", "i", "g", ".", "y", "a", "m", "l">>>>,
      <<<<"p", "r", "o", "j">>, <<"b", "u", "i", "l", "d">>, <<"o", "u", "t", ".", "j", "s", "o", "n">>>>,
      <<<<"p", "r", "o", "j">>, <<"s", "r", "c">>, <<"e", "n", "v">>, <<"r", "u", "n", ".", "s", "h">>>>,
      <<<<"p", "r", "o", "j">>, <<"R", "E", "A", "D", "M", "E">>>>>>

IsPrefix(p, q) == Len(p) <= Len(q) /\ SubSeq(q, 1, Len(p)) = p

\* the positions in EntryList of the files of tree directly in directory
FilesIn(directory, tree) ==
    {i \in tree : IsPrefix(directory, EntryList[i])
                    /\ Len(EntryList[i]) = Len(directory) + 1}

\* the subdirectories of directory, each named by the position of its
\* first file
DirsIn(directory, tree) ==
    {i \in tree :
        /\ IsPrefix(directory, EntryList[i])
        /\ Len(EntryList[i]) > Len(directory) + 1
        /\ \A j \in tree :
              (/\ j < i
               /\ IsPrefix(directory, EntryList[j])
               /\ Len(EntryList[j]) > Len(directory) + 1)
              => EntryList[j][Len(directory) + 1] /= EntryList[i][Len(directory) + 1]}

\* the paths of EntryList at the positions of the set, in ascending order
RECURSIVE InOrder(_)
InOrder(positions) ==
    IF positions = {}
    THEN <<>>
    ELSE LET first == CHOOSE i \in positions : \A j \in positions : i <= j
         IN  <<EntryList[first]>> \o InOrder(positions \ {first})

os_path_isdir(path, tree) ==
    \E i \in tree : IsPrefix(path, EntryList[i]) /\ Len(EntryList[i]) > Len(path)

\* os.walk with the pruning of ignored directories: the files kept, top
\* down
RECURSIVE Walk(_, _)
RECURSIVE WalkDirs(_, _, _)
Walk(root, tree) ==
    SelectSeq(InOrder(FilesIn(root, tree)), Scannable)
      \o WalkDirs(root, InOrder(DirsIn(root, tree)), tree)

WalkDirs(root, dirs, tree) ==
    IF dirs = <<>>
    THEN <<>>
    ELSE LET d == SubSeq(Head(dirs), 1, Len(root) + 1)
         IN  (IF should_ignore(d) THEN <<>> ELSE Walk(d, tree))
               \o WalkDirs(root, Tail(dirs), tree)

\* get_scannable_files: the list returned, or the error of os.listdir on a
\* directory that cannot be read (os.walk skips such a directory)
get_scannable_files(directory, recursive, tree, readable) ==
    IF ~os_path_isdir(directory, tree)
    THEN IF \E i \in tree : EntryList[i] = directory
         THEN [raised |-> "none", files |-> <<directory>>]
         ELSE [raised |-> "none", files |-> <<>>]
    ELSE IF recursive
    THEN [raised |-> "none",
          files |-> IF readable THEN Walk(directory, tree) ELSE <<>>]
    ELSE IF ~readable
    THEN [raised |-> "PermissionError", files |-> <<>>]
    ELSE [raised |-> "none",
          files |-> SelectSeq(InOrder(FilesIn(directory, tree)), Scannable)]

\* scan_file as a whole: no Finding when the file cannot be opened
scan_file(file_path, file) ==
    IF file.error /= "none"
    THEN <<>>
    ELSE Join([l \in 1..Len(file.content) |->
                 LineFindings(file_path, file.content, l)])

\* LLMScanner.scan_directory from the call of the service on, as a whole
LlmScan(reply) ==
    IF call_gemini_api(reply).raised /= "none"
    THEN [raised |-> call_gemini_api(reply).raised, findings |-> <<>>]
    ELSE parse_findings(call_gemini_api(reply).value)

(***************************************************************************)
(* LLMScanner.__init__ and _get_api_key_from_config                        *)
(*                                                                         *)
(* A key is None or a string; a config file is absent, or cannot be read,  *)
(* or holds a JSON document.                                               *)
(***************************************************************************)
\* bool(value) of a key
Truthy(value) == value \notin {None, Null, [str |-> ""]}

\* one "if os.path.exists(...)" block of _get_api_key_from_config: whether
\* it returns, what it returns and the exception that escapes it ("except
\* (json.JSONDecodeError, IOError)" lets the others pass)
ConfigKey(config) ==
    IF ~config.exists
    THEN [returns |-> FALSE, value |-> None, raised |-> "none"]
    ELSE IF config.error /= "none"
    THEN [returns |-> FALSE, value |-> None,
          raised |-> IF config.error \in {"JSONDecodeError", "PermissionError"}
                     THEN "none"
                     ELSE config.error]
    ELSE IF "dict" \in DOMAIN config.json
    THEN IF "gemini_api_key" \in DOMAIN config.json.dict
         THEN [returns |-> TRUE,
               value |-> IF config.json.dict["gemini_api_key"] = Null THEN None
                         ELSE config.json.dict["gemini_api_key"],
               raised |-> "none"]
         ELSE [returns |-> FALSE, value |-> None, raised |-> "none"]
    ELSE IF "array" \in DOMAIN config.json
    THEN [returns |-> FALSE, value |-> None, raised |-> "none"]
    ELSE [returns |-> FALSE, value |-> None, raised |-> "TypeError"]

\* _get_api_key_from_config: the key returned, or the exception raised
get_api_key_from_config(env, home_config, local_config) ==
    IF Truthy(env)
    THEN [raised |-> "none", value |-> env]
    ELSE IF ConfigKey(home_config).raised /= "none"
    THEN [raised |-> ConfigKey(home_config).raised, value |-> None]
    ELSE IF ConfigKey(home_config).returns
    THEN [raised |-> "none", value |-> ConfigKey(home_config).value]
    ELSE IF ConfigKey(local_config).raised /= "none"
    THEN [raised |-> ConfigKey(local_config).raised, value |-> None]
    ELSE IF ConfigKey(local_config).returns
    THEN [raised |-> "none", value |-> ConfigKey(local_config).value]
    ELSE [raised |-> "none", value |-> None]

\* the states a config file may be in
ConfigFiles(name) ==
    {[exists |-> FALSE]}
      \cup {[exists |-> TRUE, error |-> e] :
              e \in {"PermissionError", "JSONDecodeError", "UnicodeDecodeError"}}
      \cup {[exists |-> TRUE, error |-> "none", json |-> j] :
              j \in {[dict |-> EmptyDict],
                     [dict |-> [gemini_api_key |-> [str |-> name]]],
                     [dict |-> [gemini_api_key |-> [str |-> ""]]],
                     [dict |-> [gemini_api_key |-> Null]],
                     [array |-> <<>>],
                     [num |-> 1]}}

(***************************************************************************)
(* VulnerabilityScanner.scan_file: the mechanics of SecretDetector.scan_file*)
(* on the vulnerability rules                                              *)
(***************************************************************************)
\* lines of code: the SQL query built by concatenation, alone and as in
\* test_security.py, and lines with a call of execute, eval, exec,
\* os.system, an IP address, random.randint, a comment and a query call
CodeText ==
    << <<"q", "u", "e", "r", "y", " ", "=", " ", "\"", "S", "E", "L", "E",
         "C", "T", " ", "*", " ", "F", "R", "O", "M", " ", "u", "s", "e", "r",
         "s", " ", "W", "H", "E", "R", "E", " ", "i", "d", " ", "=", " ", "\"",
         " ", "+", " ", "u", "s", "e", "r", "_", "i", "d", "\n">>,
       <<" ", " ", " ", " ", "q", "u", "e", "r", "y", " ", "=", " ", "\"",
         "S", "E", "L", "E", "C", "T", " ", "*", " ", "F", "R", "O", "M", " ",
         "u", "s", "e", "r", "s", " ", "W", "H", "E", "R", "E", " ", "i", "d",
         " ", "=", " ", "\"", " ", "+", " ", "u", "s", "e", "r", "_", "i", "d",
         " ", " ", "#", " ", "D", "a", "n", "g", "e", "r", "o", "u", "s", "!",
         "\n">>,
       <<"c", "u", "r", "s", "o", "r", ".", "e", "x", "e", "c", "u", "t", "e",
         "(", "\"", "S", "E", "L", "E", "C", "T", " ", "*", " ", "F", "R", "O",
         "M", " ", "u", "s", "e", "r", "s", " ", "W", "H", "E", "R", "E", " ",
         "i", "d", " ", "=", " ", "'", "\"", " ", "+", " ", "u", "s", "e", "r",
         "_", "i", "d", " ", "+", " ", "\"", "'", "\"", ")", "\n">>,
       <<" ", " ", " ", " ", "r", "e", "s", "u", "l", "t", " ", "=", " ", "e",
         "v", "a", "l", "(", "e", "x", "p", "r", "e", "s", "s", "i", "o", "n",
         ")", "\n">>,
       <<"e", "x", "e", "c", "(", "c", "o", "d", "e", "_", "s", "t", "r", "i",
         "n", "g", ")", "\n">>,
       <<" ", " ", " ", " ", "o", "s", ".", "s", "y", "s", "t", "e", "m", "(",
         "\"", "l", "s", " ", "\"", " ", "+", " ", "u", "s", "e", "r", "_", "i",
         "n", "p", "u", "t", ")", "\n">>,
       <<"h", "o", "s", "t", " ", "=", " ", "\"", "1", "9", "2", ".", "1",
         "6", "8", ".", "1", ".", "1", "\"", "\n">>,
       <<"t", "o", "k", "e", "n", " ", "=", " ", "r", "a", "n", "d", "o", "m",
         ".", "r", "a", "n", "d", "i", "n", "t", "(", "0", ",", " ", "9", ")",
         "\n">>,
       <<" ", " ", " ", " ", "#", " ", "e", "x", "e", "c", "u", "t", "e", "(",
         "q", "u", "e", "r", "y", ")", "\n">>,
       <<"d", "b", ".", "Q", "u", "e", "r", "y", " ", "(", "\"", "a", "\"",
         " ", "+", " ", "b", " ", "+", " ", "\"", "c", "\"", ")", " ", "+", " ",
         "m", "e", "d", "i", "e", "v", "a", "l", "(", "x", ")", "\n">> >>

\* the Findings appended while the loop over the lines is on line line_num:
\* one per match of each rule, the rules in the registry's order
VulnerabilityLineFindings(file_path, lines, line_num) ==
    LET line == lines[line_num]
        matches(k) == FindIterFrom(VULNERABILITY_PATTERNS[k].pattern, line, 0)
        RECURSIVE visited(_)
        visited(k) ==
            IF k > Len(VULNERABILITY_PATTERNS)
            THEN <<>>
            ELSE [j \in 1..Len(matches(k)) |->
                    VulnerabilityFinding(file_path, line_num,
                                         VULNERABILITY_PATTERNS[k],
                                         MatchField(Group0(line, matches(k)[j])),
                                         Context(lines, line_num))]
                   \o visited(k + 1)
    IN  visited(1)

(***************************************************************************)
(* State                                                                   *)
(***************************************************************************)
VARIABLES
    disk,          \* path -> the file's state on disk
    listing,       \* what FileScanner.get_scannable_files returns
    pc,            \* where SecretDetector.scan_directory is
    files,         \* scan_directory: files
    fileIdx,       \* scan_directory: position of "for file_path in files"
    all_findings,  \* scan_directory: all_findings
    lines,         \* scan_file: lines
    line_num,      \* scan_file: line_num (0 before the first line)
    findings,      \* scan_file: findings
    trace,         \* scan_file: what each visit of the loop body computed
    calls,         \* the paths scan_file was invoked on, in order
    returned,      \* what each scan_file call returned, in order
    result         \* what scan_directory returned

VARIABLES
    vuln,          \* the advisory record being classified
    severity,      \* what _determine_severity returned for it
    sev_pc         \* "call" before the call, "returned" after

VARIABLES
    report_findings,  \* the list handed to the Reporter
    console,          \* what format_console did with it
    json              \* what format_json returned for it

VARIABLES
    directory,     \* get_scannable_files: the root
    recursive,     \* get_scannable_files: the flag
    tree,          \* the files that exist, as positions in EntryList
    readable,      \* whether the root directory can be listed
    scannable      \* what get_scannable_files did

VARIABLES
    dep_files,     \* what find_dependency_files returns
    all_packages,  \* DependencyScanner.scan_directory: all_packages
    pkgIdx,        \* position of "for pkg in all_packages"
    dep_findings,  \* DependencyScanner.scan_directory: all_findings
    stats,         \* DependencyScanner.scan_directory: stats
    lookups,       \* what the service did and what each iteration appended
    dep_pc         \* where DependencyScanner.scan_directory is

VARIABLES
    api_reply,     \* what the service does with the two calls
    api_response,  \* what _call_gemini_api returned
    llm_findings,  \* what _parse_findings did
    llm_pc,        \* where LLMScanner.scan_directory is
    key_sources,   \* --api-key, GEMINI_API_KEY and the two config files
    resolved_key,  \* LLMScanner.__init__: self.api_key
    key_pc         \* where LLMScanner.__init__ is

VARIABLES
    code_file,     \* VulnerabilityScanner.scan_file: file_path
    code_lines,    \* its lines
    code_line_num, \* its line_num (0 before the first line)
    code_findings, \* its findings
    code_pc        \* where it is

VARIABLES
    options,       \* the command line: detectors, output, severity
    target,        \* the target on disk
    cli_pc,        \* where scan is
    cli_findings,  \* scan: all_findings
    aggregated,    \* all_findings as it was before the filter
    contributed,   \* what each detector that ran did
    rendered,      \* what the Reporter did
    exit_code      \* the exit status of the process, -1 while it runs

sevVars == <<vuln, severity, sev_pc>>

repVars == <<report_findings, console, json>>

fileVars == <<directory, recursive, tree, readable, scannable>>

depVars ==
    <<dep_files, all_packages, pkgIdx, dep_findings, stats, lookups, dep_pc>>

llmVars ==
    <<api_reply, api_response, llm_findings, llm_pc, key_sources, resolved_key,
      key_pc>>

vulnVars == <<code_file, code_lines, code_line_num, code_findings, code_pc>>

cliVars ==
    <<options, target, cli_pc, cli_findings, aggregated, contributed, rendered,
      exit_code>>

scanVars ==
    <<disk, listing, pc, files, fileIdx, all_findings, lines, line_num,
      findings, trace, calls, returned, result>>

InitScan ==
    /\ \E n \in 0..MaxFiles :
         /\ listing = SubSeq(Paths, 1, n)
         /\ disk \in [Range(SubSeq(Paths, 1, n)) -> FileStates]
    /\ pc = "start"
    /\ files = <<>>
    /\ fileIdx = 0
    /\ all_findings = <<>>
    /\ lines = <<>>
    /\ line_num = 0
    /\ findings = <<>>
    /\ trace = <<>>
    /\ calls = <<>>
    /\ returned = <<>>
    /\ result = <<>>

(***************************************************************************)
(* SecretDetector.scan_directory and scan_file                             *)
(***************************************************************************)
\* scan_directory up to its loop
ScanDirectory ==
    /\ pc = "start"
    /\ all_findings' = <<>>
    /\ files' = listing
    /\ fileIdx' = 1
    /\ pc' = "loop"
    /\ UNCHANGED <<disk, listing, lines, line_num, findings, trace, calls,
                   returned, result>>
    /\ UNCHANGED <<sevVars, repVars, fileVars, depVars,
                 llmVars, cliVars, vulnVars>>

\* a faulty variant: findings is kept from one scan_file call to the next
ScanFileOpenKeepsFindings ==
    /\ pc = "loop"
    /\ fileIdx <= Len(files)
    /\ disk[files[fileIdx]].error = "none"
    /\ calls' = Append(calls, files[fileIdx])
    /\ findings' = findings
    /\ trace' = <<>>
    /\ lines' = disk[files[fileIdx]].content
    /\ line_num' = 0
    /\ pc' = "lines"
    /\ UNCHANGED <<disk, listing, files, fileIdx, all_findings, returned, result>>
    /\ UNCHANGED <<sevVars, repVars, fileVars, depVars,
                 llmVars, cliVars, vulnVars>>

\* scan_file is called on the next path; open and readlines succeed
ScanFileOpen ==
    /\ pc = "loop"
    /\ fileIdx <= Len(files)
    /\ disk[files[fileIdx]].error = "none"
    /\ calls' = Append(calls, files[fileIdx])
    /\ findings' = <<>>
    /\ trace' = <<>>
    /\ lines' = disk[files[fileIdx]].content
    /\ line_num' = 0
    /\ pc' = "lines"
    /\ UNCHANGED <<disk, listing, files, fileIdx, all_findings, returned, result>>
    /\ UNCHANGED <<sevVars, repVars, fileVars, depVars,
                 llmVars, cliVars, vulnVars>>

\* scan_file is called on the next path; open raises
ScanFileOpenFails ==
    /\ pc = "loop"
    /\ fileIdx <= Len(files)
    /\ disk[files[fileIdx]].error /= "none"
    /\ calls' = Append(calls, files[fileIdx])
    /\ findings' = <<>>
    /\ trace' = <<>>
    /\ pc' = IF Caught(disk[files[fileIdx]].error) THEN "except" ELSE "raised"
    /\ UNCHANGED <<disk, listing, files, fileIdx, all_findings, lines, line_num,
                   returned, result>>
    /\ UNCHANGED <<sevVars, repVars, fileVars, depVars,
                 llmVars, cliVars, vulnVars>>

\* one iteration of "for line_num, line in enumerate(lines, start=1)"
ScanLine ==
    /\ pc = "lines"
    /\ line_num < Len(lines)
    /\ line_num' = line_num + 1
    /\ findings' = findings \o LineFindings(files[fileIdx], lines, line_num + 1)
    /\ trace' = trace \o LineTrace(lines, line_num + 1)
    /\ UNCHANGED <<disk, listing, pc, files, fileIdx, all_findings, lines, calls,
                   returned, result>>
    /\ UNCHANGED <<sevVars, repVars, fileVars, depVars,
                 llmVars, cliVars, vulnVars>>

\* scan_file returns findings and scan_directory extends all_findings
ScanFileReturn ==
    /\ \/ pc = "lines" /\ line_num = Len(lines)
       \/ pc = "except"
    /\ returned' = Append(returned, findings)
    /\ all_findings' = Extend(all_findings, findings)
    /\ fileIdx' = fileIdx + 1
    /\ pc' = "loop"
    /\ UNCHANGED <<disk, listing, files, lines, line_num, findings, trace, calls,
                   result>>
    /\ UNCHANGED <<sevVars, repVars, fileVars, depVars,
                 llmVars, cliVars, vulnVars>>

\* the loop is over: return all_findings
ScanDirectoryReturn ==
    /\ pc = "loop"
    /\ fileIdx > Len(files)
    /\ result' = all_findings
    /\ pc' = "done"
    /\ UNCHANGED <<disk, listing, files, fileIdx, all_findings, lines, line_num,
                   findings, trace, calls, returned>>
    /\ UNCHANGED <<sevVars, repVars, fileVars, depVars,
                 llmVars, cliVars, vulnVars>>

Next ==
    \/ ScanDirectory
    \/ ScanFileOpen
    \/ ScanFileOpenFails
    \/ ScanLine
    \/ ScanFileReturn
    \/ ScanDirectoryReturn

(***************************************************************************)
(* Classifying an advisory record                                          *)
(***************************************************************************)
InitSev ==
    /\ vuln \in VulnRecords
    /\ severity = ""
    /\ sev_pc = "call"

\* 'severity': self._determine_severity(vuln)
DetermineSeverity ==
    /\ sev_pc = "call"
    /\ severity' = _determine_severity(vuln)
    /\ sev_pc' = "returned"
    /\ UNCHANGED vuln
    /\ UNCHANGED <<scanVars, repVars, fileVars, depVars,
                 llmVars, cliVars, vulnVars>>

NextSev == DetermineSeverity

(***************************************************************************)
(* Reporter.format_console and format_json on a list of Findings          *)
(***************************************************************************)
MaxFindings == 3

\* Findings as the detectors build them, and one whose severity is none of
\* the four levels
SampleFindings ==
    {LineFindings(Paths[1], SubSeq(SourceText, 1, 3), 2)[1],
     LineFindings(Paths[2], SubSeq(SourceText, 4, 4), 1)[1],
     VulnerabilityFinding(Paths[1], 3, VULNERABILITY_PATTERNS[4],
                          <<"1", "0", ".", "0", ".", "0", ".", "1">>,
                          <<"h", "=", "1", "0", ".", "0", ".", "0", ".", "1">>),
     VulnerabilityFinding(Paths[4], 1, VULNERABILITY_PATTERNS[5],
                          <<"r", "a", "n", "d", "o", "m", ".", "r", "a", "n", "d",
                            "o", "m", "(">>,
                          <<"x", "\n", "r", "a", "n", "d", "o", "m", ".", "r", "a",
                            "n", "d", "o", "m", "(", ")">>),
     [VulnerabilityFinding(Paths[3], 2, VULNERABILITY_PATTERNS[2],
                           <<"e", "v", "a", "l", "(">>,
                           <<"e", "v", "a", "l", "(", "x", ")">>)
        EXCEPT !.severity = "info"],
     [VulnerabilityFinding(Paths[5], 4, VULNERABILITY_PATTERNS[3],
                           <<"e", "x", "e", "c", "(">>,
                           <<"e", "x", "e", "c", "(", "y", ")">>)
        EXCEPT !.severity = "info"],
     DependencyFinding(PackageList[1],
                       CHOOSE a \in Advisories : a.id = "GHSA-2")}

Pending == [status |-> "pending", output |-> <<>>]

InitReport ==
    /\ report_findings \in ListsOver(SampleFindings, MaxFindings)
    /\ console = Pending
    /\ json = <<>>

\* reporter.format_console(findings)
FormatConsole ==
    /\ console = Pending
    /\ console' = format_console(report_findings)
    /\ UNCHANGED <<report_findings, json>>
    /\ UNCHANGED <<scanVars, sevVars, fileVars, depVars,
                 llmVars, cliVars, vulnVars>>

\* reporter.format_json(findings)
FormatJson ==
    /\ json = <<>>
    /\ json' = format_json(report_findings)
    /\ UNCHANGED <<report_findings, console>>
    /\ UNCHANGED <<scanVars, sevVars, fileVars, depVars,
                 llmVars, cliVars, vulnVars>>

NextReport ==
    \/ FormatConsole
    \/ FormatJson

(***************************************************************************)
(* FileScanner.get_scannable_files on a root                               *)
(***************************************************************************)
InitFiles ==
    /\ tree \in SUBSET (1..Min(MaxEntries, Len(EntryList)))
    /\ directory \in
         {<<<<"p", "r", "o", "j">>>>, <<<<"p", "r", "o", "j">>, <<"s", "r", "c">>>>, <<<<"p", "r", "o", "j">>, <<"b", "u", "i", "l", "d">>>>, <<<<"p", "r", "o", "j">>, <<"m", "i", "s", "s", "i", "n", "g">>>>}
           \cup {EntryList[i] : i \in 1..Min(MaxEntries, Len(EntryList))}
    /\ recursive \in BOOLEAN
    /\ readable \in BOOLEAN
    /\ scannable = Pending

\* file_scanner.get_scannable_files(directory, recursive)
GetScannableFiles ==
    /\ scannable = Pending
    /\ scannable' = get_scannable_files(directory, recursive, tree, readable)
    /\ UNCHANGED <<directory, recursive, tree, readable>>
    /\ UNCHANGED <<scanVars, sevVars, repVars, depVars,
                 llmVars, cliVars, vulnVars>>

(***************************************************************************)
(* DependencyScanner.scan_directory                                        *)
(***************************************************************************)
NoStats ==
    [files_found |-> 0, packages_parsed |-> 0, packages_checked |-> 0,
     vulnerabilities_found |-> 0]

InitDep ==
    \* the manifests find_dependency_files returns
    /\ \E n \in 0..3 :
         dep_files = SubSeq(<<"requirements.txt", "go.mod", "package.json">>, 1, n)
    /\ all_packages = <<>>
    /\ pkgIdx = 0
    /\ dep_findings = <<>>
    /\ stats = NoStats
    /\ lookups = <<>>
    /\ dep_pc = "start"

\* scan_directory up to its loop over the packages, with no manifest
DepNoManifest ==
    /\ dep_pc = "start"
    /\ dep_files = <<>>
    /\ dep_findings' = <<>>
    /\ stats' = NoStats
    /\ dep_pc' = "returned"
    /\ UNCHANGED <<dep_files, all_packages, pkgIdx, lookups>>
    /\ UNCHANGED <<scanVars, sevVars, repVars, fileVars,
                 llmVars, cliVars, vulnVars>>

\* scan_directory up to its loop over the packages
DepParse ==
    /\ dep_pc = "start"
    /\ dep_files /= <<>>
    /\ dep_findings' = <<>>
    /\ all_packages' = ParseAll(dep_files)
    /\ stats' = [NoStats EXCEPT !.files_found = Len(dep_files),
                                !.packages_parsed = Len(ParseAll(dep_files))]
    /\ pkgIdx' = 1
    /\ dep_pc' = "loop"
    /\ UNCHANGED <<dep_files, lookups>>
    /\ UNCHANGED <<scanVars, sevVars, repVars, fileVars,
                 llmVars, cliVars, vulnVars>>

\* one iteration of "for pkg in all_packages"
DepCheckPackage ==
    /\ dep_pc = "loop"
    /\ pkgIdx <= Len(all_packages)
    /\ \E reply \in (IF all_packages[pkgIdx].version = NoVersion
                     THEN {[error |-> "none", vulns |-> <<>>]}
                     ELSE Replies) :
         LET step == PackageStep(all_packages[pkgIdx], reply)
             pkg == all_packages[pkgIdx]
         IN  /\ lookups' =
                  Append(lookups,
                         [pkg |-> pkgIdx,
                          called |-> step.checked = 1,
                          reply |-> reply,
                          returned |-> check_vulnerability(pkg.name, pkg.version,
                                                           pkg.ecosystem, reply),
                          appended |-> step.findings,
                          raised |-> step.raised])
             /\ stats' = [stats EXCEPT
                            !.packages_checked = @ + step.checked,
                            !.vulnerabilities_found = @ + step.found]
             /\ dep_findings' = dep_findings \o step.findings
             /\ IF step.raised /= "none"
                THEN /\ dep_pc' = "raised"
                     /\ UNCHANGED pkgIdx
                ELSE /\ pkgIdx' = pkgIdx + 1
                     /\ dep_pc' = "loop"
    /\ UNCHANGED <<dep_files, all_packages>>
    /\ UNCHANGED <<scanVars, sevVars, repVars, fileVars,
                 llmVars, cliVars, vulnVars>>

\* the loop is over: return all_findings, stats
DepReturn ==
    /\ dep_pc = "loop"
    /\ pkgIdx > Len(all_packages)
    /\ dep_pc' = "returned"
    /\ UNCHANGED <<dep_files, all_packages, pkgIdx, dep_findings, stats, lookups>>
    /\ UNCHANGED <<scanVars, sevVars, repVars, fileVars,
                 llmVars, cliVars, vulnVars>>

NextDep ==
    \/ DepNoManifest
    \/ DepParse
    \/ DepCheckPackage
    \/ DepReturn

(***************************************************************************)
(* LLMScanner.scan_directory from the call of the service on               *)
(***************************************************************************)
InitLlm ==
    /\ api_reply \in ApiReplies
    /\ api_response = Pending
    /\ llm_findings = Pending
    /\ llm_pc = "call"

\* api_response = self._call_gemini_api(prompt)
CallGeminiApi ==
    /\ llm_pc = "call"
    /\ api_response' = call_gemini_api(api_reply)
    /\ llm_pc' = IF call_gemini_api(api_reply).raised = "none" THEN "parse"
                 ELSE "raised"
    /\ UNCHANGED <<api_reply, llm_findings, key_sources, resolved_key, key_pc>>
    /\ UNCHANGED <<scanVars, sevVars, repVars, fileVars,
                 depVars, cliVars, vulnVars>>

\* findings = self._parse_findings(api_response); return findings
ParseFindings ==
    /\ llm_pc = "parse"
    /\ llm_findings' = parse_findings(api_response.value)
    /\ llm_pc' = IF parse_findings(api_response.value).raised = "none"
                 THEN "returned" ELSE "raised"
    /\ UNCHANGED <<api_reply, api_response, key_sources, resolved_key, key_pc>>
    /\ UNCHANGED <<scanVars, sevVars, repVars, fileVars,
                 depVars, cliVars, vulnVars>>

NextLlm ==
    \/ CallGeminiApi
    \/ ParseFindings

(***************************************************************************)
(* scanner_cli.scan                                                        *)
(***************************************************************************)
\* SecretDetector.scan_directory as a whole, every file in the same state
RECURSIVE SecretScan(_, _)
SecretScan(paths, file) ==
    IF paths = <<>>
    THEN <<>>
    ELSE Extend(scan_file(Head(paths), file), SecretScan(Tail(paths), file))

\* what VulnerabilityScanner.scan_directory may return
VulnerabilityResults ==
    {<<>>,
     <<VulnerabilityFinding(EntryList[1], 3, VULNERABILITY_PATTERNS[4],
                            <<"1", "0", ".", "0", ".", "0", ".", "1">>,
                            <<"h", "=", "1", "0", ".", "0", ".", "0", ".", "1">>)>>,
     <<VulnerabilityFinding(EntryList[1], 1, VULNERABILITY_PATTERNS[5],
                            <<"r", "a", "n", "d", "o", "m", ".", "r", "a", "n", "d",
                              "o", "m", "(">>,
                            <<"r", "a", "n", "d", "o", "m", ".", "r", "a", "n", "d",
                              "o", "m", "(", ")">>),
       VulnerabilityFinding(EntryList[1], 2, VULNERABILITY_PATTERNS[2],
                            <<"e", "v", "a", "l", "(">>,
                            <<"e", "v", "a", "l", "(", "x", ")">>)>>}

InitCli ==
    /\ options \in [secrets : BOOLEAN, vulns : BOOLEAN, dependencies : BOOLEAN,
                    llm : BOOLEAN, output : {"console", "json"},
                    severity : {"critical", "high", "medium", "low", "all"}, recursive : BOOLEAN]
    \* the directory proj holding app.py, readable or not, or app.py itself
    /\ target \in
         {[path |-> SubSeq(EntryList[1], 1, 1), tree |-> {1}, readable |-> TRUE],
          [path |-> SubSeq(EntryList[1], 1, 1), tree |-> {1}, readable |-> FALSE],
          [path |-> EntryList[1], tree |-> {1}, readable |-> TRUE]}
    /\ cli_pc = "secrets"
    /\ cli_findings = <<>>
    /\ aggregated = <<>>
    /\ contributed = <<>>
    /\ rendered = Pending
    /\ exit_code = -1

\* an exception leaves scan: the process ends with status 1
Crash ==
    /\ cli_pc' = "crashed"
    /\ exit_code' = 1

\* "if secrets:" and its body
ScanSecrets ==
    /\ cli_pc = "secrets"
    /\ IF ~options.secrets
       THEN /\ cli_pc' = "vulns"
            /\ UNCHANGED <<cli_findings, contributed, exit_code>>
       ELSE LET listed == get_scannable_files(target.path, options.recursive,
                                              target.tree, target.readable)
            IN  IF listed.raised /= "none"
                THEN /\ Crash
                     /\ contributed' = Append(contributed,
                                              [detector |-> "secrets",
                                               raised |-> listed.raised,
                                               findings |-> <<>>])
                     /\ UNCHANGED cli_findings
                ELSE \E file \in
                         {[error |-> "none", content |-> SubSeq(SourceText, 2, 2)],
                          [error |-> "none", content |-> SubSeq(SourceText, 4, 4)],
                          [error |-> "PermissionError", content |-> <<>>]} :
                       /\ cli_findings' = Extend(cli_findings,
                                                 SecretScan(listed.files, file))
                       /\ contributed' = Append(contributed,
                                                [detector |-> "secrets",
                                                 raised |-> "none",
                                                 findings |-> SecretScan(listed.files, file)])
                       /\ cli_pc' = "vulns"
                       /\ UNCHANGED exit_code
    /\ UNCHANGED <<options, target, aggregated, rendered>>
    /\ UNCHANGED <<scanVars, sevVars, repVars, fileVars,
                 depVars, llmVars, vulnVars>>

\* "if vulns:" and its body
ScanVulnerabilities ==
    /\ cli_pc = "vulns"
    /\ IF ~options.vulns
       THEN UNCHANGED <<cli_findings, contributed>>
       ELSE \E vuln_findings \in VulnerabilityResults :
              /\ cli_findings' = Extend(cli_findings, vuln_findings)
              /\ contributed' = Append(contributed,
                                       [detector |-> "vulns", raised |-> "none",
                                        findings |-> vuln_findings])
    /\ cli_pc' = "dependencies"
    /\ UNCHANGED <<options, target, aggregated, rendered, exit_code>>
    /\ UNCHANGED <<scanVars, sevVars, repVars, fileVars,
                 depVars, llmVars, vulnVars>>

\* "if dependencies:" and its body
ScanDependencies ==
    /\ cli_pc = "dependencies"
    /\ IF ~options.dependencies \/ ~os_path_isdir(target.path, target.tree)
       THEN /\ cli_pc' = "llm"
            /\ UNCHANGED <<cli_findings, contributed, exit_code>>
       ELSE \E replies \in
                [1..Len(ParseAll(<<"package.json">>)) ->
                   {[error |-> "none", vulns |-> <<>>],
                    [error |-> "Timeout", vulns |-> <<>>]}
                     \cup {[error |-> "none", vulns |-> <<a>>] :
                             a \in {x \in Advisories :
                                      x.id \in {"GHSA-1", "GHSA-2", "GHSA-4"}}}] :
              LET scanned == DependencyScan(<<"package.json">>, replies)
              IN  /\ contributed' = Append(contributed,
                                           [detector |-> "dependencies",
                                            raised |-> scanned.raised,
                                            findings |-> scanned.findings])
                  /\ IF scanned.raised /= "none"
                     THEN /\ Crash
                          /\ UNCHANGED cli_findings
                     ELSE /\ cli_findings' = Extend(cli_findings, scanned.findings)
                          /\ cli_pc' = "llm"
                          /\ UNCHANGED exit_code
    /\ UNCHANGED <<options, target, aggregated, rendered>>
    /\ UNCHANGED <<scanVars, sevVars, repVars, fileVars,
                 depVars, llmVars, vulnVars>>

\* "if llm:" and its body: the try block and its handler
ScanLlm ==
    /\ cli_pc = "llm"
    /\ IF ~options.llm
       THEN UNCHANGED <<cli_findings, contributed>>
       ELSE \E has_key \in BOOLEAN :
              IF ~has_key
              THEN UNCHANGED <<cli_findings, contributed>>
              ELSE \E reply \in
                       {[first |-> [text |-> FenceJson \o <<"\n", d, "\n">> \o Fence],
                         second |-> [error |-> "ServerError"]] :
                           d \in {"DOC_TWO", "DOC_THREE", "DOC_ARRAY"}}
                         \cup {[first |-> [error |-> "ServerError"],
                                second |-> [error |-> "ServerError"]]} :
                     LET scanned == LlmScan(reply)
                     IN  /\ contributed' = Append(contributed,
                                                  [detector |-> "llm",
                                                   raised |-> scanned.raised,
                                                   findings |-> scanned.findings,
                                                   reply |-> reply])
                         /\ cli_findings' =
                              IF scanned.raised /= "none" THEN cli_findings
                              ELSE Extend(cli_findings, scanned.findings)
    /\ cli_pc' = "filter"
    /\ UNCHANGED <<options, target, aggregated, rendered, exit_code>>
    /\ UNCHANGED <<scanVars, sevVars, repVars, fileVars,
                 depVars, llmVars, vulnVars>>

\* a faulty variant: the threshold itself is dropped
KeptAboveThreshold(f, threshold) ==
    OrderKey(f.severity) < OrderKey(threshold)

\* severity_order.get(f['severity'], 99) <= min_severity
Kept(f, threshold) == OrderKey(f.severity) <= OrderKey(threshold)

\* "if severity != 'all':" and its body
FilterBySeverity ==
    /\ cli_pc = "filter"
    /\ aggregated' = cli_findings
    /\ cli_findings' =
         IF options.severity /= "all"
         THEN SelectSeq(cli_findings, LAMBDA f : Kept(f, options.severity))
         ELSE cli_findings
    /\ cli_pc' = "report"
    /\ UNCHANGED <<options, target, contributed, rendered, exit_code>>
    /\ UNCHANGED <<scanVars, sevVars, repVars, fileVars,
                 depVars, llmVars, vulnVars>>

\* the Reporter is invoked and its output printed
Report ==
    /\ cli_pc = "report"
    /\ IF options.output = "json"
       THEN /\ rendered' = [status |-> "ok", output |-> format_json(cli_findings)]
            /\ cli_pc' = "exit"
            /\ UNCHANGED exit_code
       ELSE /\ rendered' = format_console(cli_findings)
            /\ IF format_console(cli_findings).status = "ok"
               THEN cli_pc' = "exit" /\ UNCHANGED exit_code
               ELSE Crash
    /\ UNCHANGED <<options, target, cli_findings, aggregated, contributed>>
    /\ UNCHANGED <<scanVars, sevVars, repVars, fileVars,
                 depVars, llmVars, vulnVars>>

\* critical_high is not empty
Fails(fs) == \E i \in 1..Len(fs) : fs[i].severity \in {"critical", "high"}

\* sys.exit(1) or sys.exit(0)
Exit ==
    /\ cli_pc = "exit"
    /\ exit_code' = IF Fails(cli_findings) THEN 1 ELSE 0
    /\ cli_pc' = "exited"
    /\ UNCHANGED <<options, target, cli_findings, aggregated, contributed,
                   rendered>>
    /\ UNCHANGED <<scanVars, sevVars, repVars, fileVars,
                 depVars, llmVars, vulnVars>>

NextCli ==
    \/ ScanSecrets
    \/ ScanVulnerabilities
    \/ ScanDependencies
    \/ ScanLlm
    \/ FilterBySeverity
    \/ Report
    \/ Exit

(***************************************************************************)
(* Constructing the LLMScanner                                             *)
(***************************************************************************)
InitApiKey ==
    /\ key_sources \in [cli : {None, [str |-> ""], [str |-> "cli-key"]},
                        env : {None, [str |-> ""], [str |-> "env-key"]},
                        home : ConfigFiles("home-key"),
                        local : ConfigFiles("local-key")]
    /\ resolved_key = None
    /\ key_pc = "init"

\* self.api_key = api_key or self._get_api_key_from_config()
ResolveApiKey ==
    /\ key_pc = "init"
    /\ LET config == get_api_key_from_config(key_sources.env, key_sources.home,
                                             key_sources.local)
       IN  IF Truthy(key_sources.cli)
           THEN resolved_key' = key_sources.cli /\ key_pc' = "done"
           ELSE IF config.raised /= "none"
           THEN resolved_key' = None /\ key_pc' = "raised"
           ELSE resolved_key' = config.value /\ key_pc' = "done"
    /\ UNCHANGED <<key_sources, api_reply, api_response, llm_findings, llm_pc>>
    /\ UNCHANGED <<scanVars, sevVars, repVars, fileVars,
                 depVars, cliVars, vulnVars>>

(***************************************************************************)
(* VulnerabilityScanner.scan_file on a code file                           *)
(***************************************************************************)
InitVulnerabilities ==
    /\ code_file \in {Paths[1], Paths[4]}
    \* f.readlines(): no line, or at most MaxLines consecutive lines of CodeText
    /\ \E a \in 1..Len(CodeText), b \in 0..Len(CodeText) :
         /\ b < a + MaxLines
         /\ code_lines = SubSeq(CodeText, a, b)
    /\ code_line_num = 0
    /\ code_findings = <<>>
    /\ code_pc = "lines"

\* one iteration of the loop over the lines of the file
VulnerabilityScanLine ==
    /\ code_pc = "lines"
    /\ code_line_num < Len(code_lines)
    /\ code_line_num' = code_line_num + 1
    /\ code_findings' =
         code_findings
           \o VulnerabilityLineFindings(code_file, code_lines, code_line_num + 1)
    /\ UNCHANGED <<code_file, code_lines, code_pc>>
    /\ UNCHANGED <<scanVars, sevVars, repVars, fileVars,
                 depVars, llmVars, cliVars>>

\* scan_file returns its findings
VulnerabilityScanReturn ==
    /\ code_pc = "lines"
    /\ code_line_num = Len(code_lines)
    /\ code_pc' = "returned"
    /\ UNCHANGED <<code_file, code_lines, code_line_num, code_findings>>
    /\ UNCHANGED <<scanVars, sevVars, repVars, fileVars,
                 depVars, llmVars, cliVars>>

NextVulnerabilities ==
    \/ VulnerabilityScanLine
    \/ VulnerabilityScanReturn

(***************************************************************************)
(* Specifications                                                          *)
(***************************************************************************)
vars ==
    <<scanVars, sevVars, repVars, fileVars, depVars, llmVars, cliVars, vulnVars>>

\* no advisory record is being classified
SevIdle ==
    /\ vuln = EmptyDict
    /\ severity = ""
    /\ sev_pc = "idle"

\* no directory is being scanned
ScanIdle ==
    /\ disk = EmptyDict
    /\ listing = <<>>
    /\ pc = "idle"
    /\ files = <<>>
    /\ fileIdx = 0
    /\ all_findings = <<>>
    /\ lines = <<>>
    /\ line_num = 0
    /\ findings = <<>>
    /\ trace = <<>>
    /\ calls = <<>>
    /\ returned = <<>>
    /\ result = <<>>

\* the components other than the running one are not invoked
OthersIdle(running) ==
    /\ running /= "Reporter" =>
         /\ report_findings = <<>>
         /\ console = [status |-> "idle", output |-> <<>>]
         /\ json = <<>>
    /\ running /= "FileScanner" =>
         /\ directory = <<>>
         /\ recursive = TRUE
         /\ tree = {}
         /\ readable = TRUE
         /\ scannable = [status |-> "idle", output |-> <<>>]
    /\ running /= "DependencyScanner" =>
         /\ dep_files = <<>>
         /\ all_packages = <<>>
         /\ pkgIdx = 0
         /\ dep_findings = <<>>
         /\ stats = NoStats
         /\ lookups = <<>>
         /\ dep_pc = "idle"
    /\ running /= "LLMScanner" =>
         /\ api_reply = EmptyDict
         /\ api_response = [status |-> "idle", output |-> <<>>]
         /\ llm_findings = [status |-> "idle", output |-> <<>>]
         /\ llm_pc = "idle"
    /\ running /= "LLMScanner.__init__" =>
         /\ key_sources = EmptyDict
         /\ resolved_key = None
         /\ key_pc = "idle"
    /\ running /= "VulnerabilityScanner" =>
         /\ code_file = ""
         /\ code_lines = <<>>
         /\ code_line_num = 0
         /\ code_findings = <<>>
         /\ code_pc = "idle"
    /\ running /= "scanner_cli" =>
         /\ options = EmptyDict
         /\ target = EmptyDict
         /\ cli_pc = "idle"
         /\ cli_findings = <<>>
         /\ aggregated = <<>>
         /\ contributed = <<>>
         /\ rendered = [status |-> "idle", output |-> <<>>]
         /\ exit_code = -1

Init == InitScan /\ SevIdle /\ OthersIdle("SecretScanner")

\* the secret scan of a directory
Spec == Init /\ [][Next]_vars

InitSeverity == InitSev /\ ScanIdle /\ OthersIdle("DependencyScanner._determine_severity")

\* the classification of an advisory record
SpecSev == InitSeverity /\ [][NextSev]_vars

InitReporter == InitReport /\ ScanIdle /\ SevIdle /\ OthersIdle("Reporter")

\* the rendering of a list of Findings
SpecReport == InitReporter /\ [][NextReport]_vars

InitFileScanner == InitFiles /\ ScanIdle /\ SevIdle /\ OthersIdle("FileScanner")

\* the listing of the files to scan
SpecFiles == InitFileScanner /\ [][GetScannableFiles]_vars

InitDependencies == InitDep /\ ScanIdle /\ SevIdle /\ OthersIdle("DependencyScanner")

\* the dependency scan of a directory
SpecDep == InitDependencies /\ [][NextDep]_vars

InitLlmScanner == InitLlm /\ ScanIdle /\ SevIdle /\ OthersIdle("LLMScanner")

\* the LLM analysis
SpecLlm == InitLlmScanner /\ [][NextLlm]_vars

InitScan_cli == InitCli /\ ScanIdle /\ SevIdle /\ OthersIdle("scanner_cli")

InitKey ==
    InitApiKey /\ ScanIdle /\ SevIdle /\ OthersIdle("LLMScanner.__init__")

\* the construction of the LLMScanner
SpecKey == InitKey /\ [][ResolveApiKey]_vars

InitVulnerabilityScanner ==
    InitVulnerabilities /\ ScanIdle /\ SevIdle /\ OthersIdle("VulnerabilityScanner")

\* the vulnerability scan of a code file
SpecVuln == InitVulnerabilityScanner /\ [][NextVulnerabilities]_vars

\* a run of the command line tool
SpecCli == InitScan_cli /\ [][NextCli]_vars

(***************************************************************************)
(* Properties of the secret scan (specification Spec)                      *)
(***************************************************************************)
\* the lines numbered a..b (1-based, inclusive) of a file, concatenated
LinesJoined(content, a, b) == Join(SubSeq(content, a, b))

\* t is s without its leading and trailing whitespace
IsTrimOf(t, s) ==
    \E a \in 0..Len(s) :
        /\ \A i \in 1..a : s[i] \in Whitespace
        /\ \E b \in a..Len(s) :
             /\ \A i \in (b + 1)..Len(s) : s[i] \in Whitespace
             /\ Len(t) = b - a
             /\ t = <<>> \/ (t[1] \notin Whitespace /\ t[Len(t)] \notin Whitespace)
             /\ t = SubSeq(s, a + 1, b)

\* the number of matches of all rules on all lines of a file
TotalMatches(content) ==
    Cardinality(UNION {{<<x[1], x[2], j>> : j \in 1..Len(finditer(x[2], content[x[1]]))} :
                         x \in (1..Len(content)) \X (1..Len(SECRET_PATTERNS))})

\* the positions in a Finding sequence of the Findings of rule k on line l
FindingsOf(fs, l, k) ==
    {i \in 1..Len(fs) : fs[i].line = l /\ fs[i].name = SECRET_PATTERNS[k].name}

\* C1: each scan_file call on a readable file returns as many Findings as
\* there are matches of all rules on all lines, and for every line and
\* every rule as many Findings of that rule on that line as the rule has
\* matches on the line, whatever the other rules match there.
C1_OneFindingPerMatch ==
    \A c \in 1..Len(returned) :
        LET content == disk[calls[c]].content
        IN  disk[calls[c]].error = "none" =>
              /\ Len(returned[c]) = TotalMatches(content)
              /\ \A l \in 1..Len(content) : \A k \in 1..Len(SECRET_PATTERNS) :
                   Cardinality(FindingsOf(returned[c], l, k))
                     = Len(finditer(k, content[l]))

\* a call returned two Findings of different rules for one line and two
\* Findings of one rule for one line
C1_Witness ==
    \E c \in 1..Len(returned) :
        /\ \E i, j \in 1..Len(returned[c]) :
             /\ i < j
             /\ returned[c][i].line = returned[c][j].line
             /\ returned[c][i].name /= returned[c][j].name
        /\ \E i, j \in 1..Len(returned[c]) :
             /\ i < j
             /\ returned[c][i].line = returned[c][j].line
             /\ returned[c][i].name = returned[c][j].name

\* C2 as stated: the context of a Finding on line L of a file of n lines is
\* the concatenation of the lines max(1, L-2) .. min(n, L+1), trimmed.
C2_ContextWindowTwoBefore ==
    \A i \in 1..Len(findings) :
        LET L == findings[i].line
            n == Len(lines)
        IN  IsTrimOf(findings[i].context,
                     LinesJoined(lines, Max(1, L - 2), Min(n, L + 1)))

\* C2 (amended): the context of a Finding on line L of a file of n lines is
\* the concatenation of the lines max(1, L-1) .. min(n, L+1), trimmed: one
\* line before the matched line and one after it.
C2_ContextWindow ==
    \A i \in 1..Len(findings) :
        LET L == findings[i].line
            n == Len(lines)
        IN  IsTrimOf(findings[i].context,
                     LinesJoined(lines, Max(1, L - 1), Min(n, L + 1)))

\* a Finding on the third line of a file whose first line is not blank
C2_Witness ==
    \E i \in 1..Len(findings) :
        /\ findings[i].line = 3
        /\ Strip(lines[1]) /= <<>>

\* C3: for every match the bounds of the context slice satisfy
\* 0 <= context_start <= context_end <= len(lines), the matched line is
\* inside the slice, and in a file of one line the context is that line,
\* trimmed.
C3_ContextInBounds ==
    /\ \A i \in 1..Len(trace) :
         /\ 0 <= trace[i].context_start
         /\ trace[i].context_start <= trace[i].context_end
         /\ trace[i].context_end <= Len(lines)
         /\ trace[i].context_start <= trace[i].line_num - 1
         /\ trace[i].line_num - 1 < trace[i].context_end
    /\ Len(lines) = 1 =>
         \A i \in 1..Len(findings) : IsTrimOf(findings[i].context, lines[1])

\* a match on the only line of a file, and in another call a match on the
\* last of several lines
C3_Witness ==
    /\ Len(lines) = 1
    /\ findings /= <<>>
    /\ Len(trace) = Len(findings)
    /\ \E c \in 1..Len(returned) : \E i \in 1..Len(returned[c]) :
         /\ returned[c][i].line > 1
         /\ returned[c][i].line = Len(disk[calls[c]].content)

\* the text matched at the i-th visit of the loop body
Matched(i) == SubSeq(lines[trace[i].line_num], trace[i].start + 1, trace[i].end)

\* C4: a matched text of more than 50 characters is reported as its first
\* 50 characters followed by "...", at most 53 characters in all; a matched
\* text of 50 characters or fewer is reported unchanged.
C4_MatchTruncation ==
    /\ Len(trace) = Len(findings)
    /\ \A i \in 1..Len(findings) :
         LET m == Matched(i)
             f == findings[i].match
         IN  /\ Len(m) > 50 =>
                  /\ Len(f) <= 53
                  /\ SubSeq(f, 1, 50) = SubSeq(m, 1, 50)
                  /\ SubSeq(f, 51, Len(f)) = <<".", ".", ".">>
             /\ Len(m) <= 50 => f = m

\* a matched text of exactly 50 characters and one of 51 in the same file
C4_Witness ==
    /\ Len(trace) = Len(findings)
    /\ \E i, j \in 1..Len(trace) :
         /\ Len(Matched(i)) = 50
         /\ Len(Matched(j)) = 51
         /\ Len(findings[j].match) = 53

\* (line, rule, start) of visit a is before that of visit b
Before(a, b) ==
    \/ a.line_num < b.line_num
    \/ a.line_num = b.line_num /\ a.rule < b.rule
    \/ a.line_num = b.line_num /\ a.rule = b.rule /\ a.start < b.start

\* C5: the Findings of a file are in ascending order of line number, then
\* of the rule's position in the registry, then of the match's position in
\* the line.
C5_FindingOrder ==
    /\ Len(trace) = Len(findings)
    /\ \A i \in 1..Len(findings) :
         /\ findings[i].line = trace[i].line_num
         /\ findings[i].name = SECRET_PATTERNS[trace[i].rule].name
    /\ \A i, j \in 1..Len(trace) : i < j => Before(trace[i], trace[j])

\* two rules match one line, the later rule further to the left; one rule
\* matches a line twice; Findings on two lines
C5_Witness ==
    /\ Len(trace) = Len(findings)
    /\ \E i, j \in 1..Len(trace) :
         /\ i < j
         /\ trace[i].line_num = trace[j].line_num
         /\ trace[i].rule < trace[j].rule
         /\ trace[i].start > trace[j].start
    /\ \E i, j \in 1..Len(trace) : i < j /\ trace[i].line_num < trace[j].line_num

\* the Findings of a whole readable file
RECURSIVE FileFindings(_, _, _)
FileFindings(path, content, upto) ==
    IF upto = 0
    THEN <<>>
    ELSE FileFindings(path, content, upto - 1) \o LineFindings(path, content, upto)

\* C6: scan_file never raises; when the file cannot be opened it returns
\* no Finding, and scan_directory goes on: its result holds the Findings
\* of every readable file.
C6_UnreadableFileSkipped ==
    /\ pc /= "raised"
    /\ \A c \in 1..Len(returned) :
         disk[calls[c]].error /= "none" => returned[c] = <<>>
    /\ pc = "done" =>
         \A p \in Range(listing) :
             disk[p].error = "none" =>
                SelectSeq(result, LAMBDA f : f.file = p)
                  = FileFindings(p, disk[p].content, Len(disk[p].content))

\* the scan is over and a file that could not be opened came before a file
\* with Findings
C6_Witness ==
    /\ pc = "done"
    /\ Len(listing) >= 2
    /\ disk[listing[1]].error = "PermissionError"
    /\ \E i \in 1..Len(result) : result[i].file = listing[2]

\* C7: scan_directory calls scan_file once on each path of the listing, in
\* the listing's order, and returns the concatenation of what the calls
\* returned, in that order.
C7_ConcatenationInOrder ==
    /\ Len(calls) <= Len(files)
    /\ calls = SubSeq(files, 1, Len(calls))
    /\ all_findings = Join(returned)
    /\ pc = "done" =>
         /\ calls = listing
         /\ Len(returned) = Len(listing)
         /\ result = Join(returned)

\* the scan is over and two files had Findings
C7_Witness ==
    /\ pc = "done"
    /\ Len(returned) >= 2
    /\ returned[1] /= <<>>
    /\ returned[2] /= <<>>
    /\ returned[1] /= returned[2]

(***************************************************************************)
(* Properties of the severity classifier (specification SpecSev)           *)
(***************************************************************************)
\* the record's database_specific entry, empty when it has none
DbSpecific == IF "database_specific" \in DOMAIN vuln THEN vuln["database_specific"]
              ELSE EmptyDict

HasScore == "cvss_score" \in DOMAIN DbSpecific

HasSeverityText == "severity" \in DOMAIN DbSpecific

\* C8: with a cvss_score s the result is critical when s >= 9.0, high when
\* 7.0 <= s < 9.0, medium when 4.0 <= s < 7.0 and low when s < 4.0.
C8_ScoreBands ==
    (sev_pc = "returned" /\ HasScore) =>
        LET s == DbSpecific["cvss_score"]
        IN  /\ s >= 90 => severity = "critical"
            /\ (70 <= s /\ s < 90) => severity = "high"
            /\ (40 <= s /\ s < 70) => severity = "medium"
            /\ s < 40 => severity = "low"

\* a record with the boundary score 7.0 was classified
C8_Witness ==
    /\ sev_pc = "returned"
    /\ HasScore
    /\ DbSpecific["cvss_score"] = 70
    /\ severity = "high"

\* word occurs in text, letters compared without regard to case
OccursIgnoringCase(word, text) ==
    \E i \in 0..(Len(text) - Len(word)) :
        \A j \in 1..Len(word) : LowerChar(text[i + j]) = LowerChar(word[j])

\* C9: with no cvss_score and a severity text, the result is critical when
\* the text contains "critical", else high when it contains "high", else
\* medium when it contains "medium", else low, case ignored.
C9_TextKeywords ==
    (sev_pc = "returned" /\ ~HasScore /\ HasSeverityText) =>
        LET t == DbSpecific["severity"]
            crit == OccursIgnoringCase(<<"c", "r", "i", "t", "i", "c", "a", "l">>, t)
            high == OccursIgnoringCase(<<"h", "i", "g", "h">>, t)
            med == OccursIgnoringCase(<<"m", "e", "d", "i", "u", "m">>, t)
        IN  /\ crit => severity = "critical"
            /\ (~crit /\ high) => severity = "high"
            /\ (~crit /\ ~high /\ med) => severity = "medium"
            /\ (~crit /\ ~high /\ ~med) => severity = "low"

\* the text "HIGHCRITICAL" was classified critical
C9_Witness ==
    /\ sev_pc = "returned"
    /\ ~HasScore
    /\ HasSeverityText
    /\ DbSpecific["severity"]
         = <<"H", "I", "G", "H", "C", "R", "I", "T", "I", "C", "A", "L">>
    /\ severity = "critical"

\* C10: with neither a cvss_score nor a severity text the result is high.
C10_DefaultHigh ==
    (sev_pc = "returned" /\ ~HasScore /\ ~HasSeverityText) => severity = "high"

\* the empty record was classified
C10_Witness ==
    /\ sev_pc = "returned"
    /\ vuln = EmptyDict
    /\ severity = "high"

(***************************************************************************)
(* Properties of a run of the command line tool (specification SpecCli)    *)
(***************************************************************************)
\* the text of the response the LLM path works on
ResponseText(reply) ==
    IF "text" \in DOMAIN reply.first THEN reply.first.text
    ELSE IF "text" \in DOMAIN reply.second THEN reply.second.text
    ELSE <<>>

\* the findings array of the JSON document a response text holds
RawFindingsIn(text) ==
    LET names == {d \in DOMAIN JsonDocuments : d \in Range(text)}
        doc == JsonDocuments[CHOOSE d \in names : TRUE]
    IN  IF names = {} THEN <<>>
        ELSE IF "dict" \in DOMAIN doc /\ "findings" \in DOMAIN doc.dict
        THEN doc.dict.findings
        ELSE <<>>

\* the severity token of a finding of the response, "" when it is absent or
\* no string
SeverityToken(raw) ==
    IF "severity" \in DOMAIN raw /\ DOMAIN raw["severity"] = {"str"}
    THEN raw["severity"].str
    ELSE ""

Levels == {"critical", "high", "medium", "low"}

\* C11: every Finding of the aggregated list, from any detector, has one
\* of the severities critical, high, medium, low; and each Finding the LLM
\* path contributes carries the severity token of the response when that
\* token is one of the four, and medium when it is absent or anything else.
C11_CanonicalSeverity ==
    /\ \A i \in 1..Len(cli_findings) : cli_findings[i].severity \in Levels
    /\ \A i \in 1..Len(aggregated) : aggregated[i].severity \in Levels
    /\ \A c \in 1..Len(contributed) :
         (contributed[c].detector = "llm" /\ contributed[c].raised = "none") =>
           LET raw == RawFindingsIn(ResponseText(contributed[c].reply))
               fs == contributed[c].findings
           IN  /\ Len(fs) = Len(raw)
               /\ \A i \in 1..Len(fs) :
                    fs[i].severity = IF SeverityToken(raw[i]) \in Levels
                                     THEN SeverityToken(raw[i])
                                     ELSE "medium"

\* a run that ended with Findings of the secret rules, the dependency
\* classifier and the LLM path, one of them with the token HIGH replaced
C11_Witness ==
    /\ cli_pc = "exited"
    /\ {"secret", "dependency", "llm_analysis"}
         \subseteq {aggregated[i].type : i \in 1..Len(aggregated)}
    /\ \E c \in 1..Len(contributed) :
         /\ contributed[c].detector = "llm"
         /\ \E i \in 1..Len(contributed[c].findings) :
              /\ SeverityToken(RawFindingsIn(ResponseText(contributed[c].reply))[i])
                   = "HIGH"
              /\ contributed[c].findings[i].severity = "medium"

\* the filter has run
Filtered ==
    \/ cli_pc \in {"report", "exit", "exited"}
    \/ cli_pc = "crashed" /\ rendered.status /= "pending"

Index == [critical |-> 0, high |-> 1, medium |-> 2, low |-> 3]

\* the Findings of a list whose severity is in a set, in their order
RECURSIVE Keeping(_, _)
Keeping(fs, sevs) ==
    IF fs = <<>>
    THEN <<>>
    ELSE IF Head(fs).severity \in sevs
    THEN <<Head(fs)>> \o Keeping(Tail(fs), sevs)
    ELSE Keeping(Tail(fs), sevs)

\* C12: with threshold t the filter keeps exactly the Findings whose
\* severity index is at most the index of t, in their original order;
\* threshold high keeps exactly the critical and high Findings; threshold
\* all leaves the list as it is.
C12_MinimumSeverityFilter ==
    Filtered =>
      /\ options.severity = "all" => cli_findings = aggregated
      /\ options.severity = "high" =>
           cli_findings = Keeping(aggregated, {"critical", "high"})
      /\ options.severity \in DOMAIN Index =>
           cli_findings =
             Keeping(aggregated,
                     {s \in DOMAIN Index : Index[s] <= Index[options.severity]})

\* threshold medium on a list that holds a low Finding between others: the
\* low Finding is dropped and a medium one kept
C12_Witness ==
    /\ Filtered
    /\ options.severity = "medium"
    /\ \E i \in 1..Len(aggregated) : aggregated[i].severity = "low"
    /\ \E i \in 1..Len(cli_findings) : cli_findings[i].severity = "medium"
    /\ Len(cli_findings) >= 2
    /\ Len(cli_findings) < Len(aggregated)

\* C13: the process ends with status 1 exactly when a Finding that remains
\* after the filter is critical or high; with only medium and low Findings,
\* or none, it ends with status 0.
C13_ExitCode ==
    (Filtered /\ exit_code /= -1) =>
      (exit_code = 1 <=>
         \E i \in 1..Len(cli_findings) :
            cli_findings[i].severity \in {"critical", "high"})

(***************************************************************************)
(* Properties of the Reporter (specification SpecReport)                   *)
(***************************************************************************)
\* the positions of the group headers in a console report
Headers(output) == {i \in 1..Len(output) : output[i].kind = "header"}

\* the place of a severity in the report: the four levels, then the rest
Place(sev) ==
    IF sev = "critical" THEN 1
    ELSE IF sev = "high" THEN 2
    ELSE IF sev = "medium" THEN 3
    ELSE IF sev = "low" THEN 4
    ELSE 5

\* the blocks of the Findings printed under the header at position h
GroupAt(output, h) ==
    LET stop == CHOOSE j \in (h + 1)..Len(output) :
                   /\ output[j].kind /= "finding"
                   /\ \A k \in (h + 1)..(j - 1) : output[k].kind = "finding"
    IN  SubSeq(output, h + 1, stop - 1)

\* block b prints Finding f
Prints(b, f) ==
    /\ b.type = f.type
    /\ b.name = f.name
    /\ b.file = f.file
    /\ b.line = f.line
    /\ b.description = f.description
    /\ b.match = f.match

\* C14: format_console prints the severity groups in the order critical,
\* high, medium, low, a group of any other severity after low, each severity
\* once; and under each header the Findings of that severity, all of them,
\* in the order they have in the input list.
C14_GroupOrder ==
    console.status = "ok" =>
      /\ \A h1, h2 \in Headers(console.output) :
           h1 < h2 =>
             /\ Place(console.output[h1].severity) <= Place(console.output[h2].severity)
             /\ console.output[h1].severity /= console.output[h2].severity
      /\ {console.output[h].severity : h \in Headers(console.output)}
           = {report_findings[i].severity : i \in 1..Len(report_findings)}
      /\ \A h \in Headers(console.output) :
           LET group == GroupAt(console.output, h)
               input == Keeping(report_findings, {console.output[h].severity})
           IN  /\ Len(group) = Len(input)
               /\ \A i \in 1..Len(group) : Prints(group[i], input[i])

\* a report of three Findings given in the order info, critical, info:
\* the critical group comes first and the group info holds two Findings
C14_Witness ==
    /\ console.status = "ok"
    /\ Len(report_findings) = 3
    /\ report_findings[1].severity = "info"
    /\ report_findings[2].severity = "critical"
    /\ report_findings[3].severity = "info"
    /\ report_findings[1] /= report_findings[3]
    /\ Cardinality(Headers(console.output)) = 2

\* the member of a JSON object with a key
Member(object, key) == {object[i][2] : i \in {j \in 1..Len(object) : object[j][1] = key}}

\* a JSON object holds exactly the entries of a dict
SameEntries(object, dict) ==
    /\ Len(object) = Cardinality(DOMAIN dict)
    /\ \A k \in DOMAIN dict : Member(object, k) = {dict[k]}

\* C15: format_json writes an object whose total is the number of Findings
\* passed in and whose findings array holds exactly these Findings, each
\* with all its entries, in the order passed in.
C15_JsonAsPassed ==
    json /= <<>> =>
      /\ Len(json) = 2
      /\ json[1] = <<"total", Len(report_findings)>>
      /\ json[2][1] = "findings"
      /\ Len(json[2][2]) = Len(report_findings)
      /\ \A i \in 1..Len(report_findings) :
           SameEntries(json[2][2][i], report_findings[i])

\* a list of three Findings that is not in severity order, one of them
\* with a severity that is none of the four levels, was written
C15_Witness ==
    /\ json /= <<>>
    /\ Len(report_findings) = 3
    /\ report_findings[1].severity = "low"
    /\ report_findings[2].severity = "info"
    /\ report_findings[3].severity = "critical"
    /\ json[1][2] = 3

(***************************************************************************)
(* Properties of the file listing (specification SpecFiles)                *)
(***************************************************************************)
\* the extension of a file name: from its last dot on, in lower case
ExtensionOf(name) ==
    LET dots == {i \in 2..(Len(name) - 1) : name[i] = "."}
    IN  IF dots = {}
        THEN <<>>
        ELSE LowerStr(SubSeq(name, CHOOSE i \in dots : \A j \in dots : j <= i,
                             Len(name)))

\* C16: for every root, directory or single file, and either value of the
\* recursive flag, every path get_scannable_files returns has an extension
\* of the code set or of the config set and no segment of the ignore set.
C16_ScannableOnly ==
    (scannable /= Pending /\ scannable.raised = "none") =>
      \A i \in 1..Len(scannable.files) :
        LET path == scannable.files[i]
        IN  /\ ExtensionOf(path[Len(path)])
                 \in CODE_FILE_EXTENSIONS \cup CONFIG_FILE_EXTENSIONS
            /\ \A k \in 1..Len(path) : path[k] \notin IGNORE_PATTERNS

(***************************************************************************)
(* Properties of the Findings and of the detectors' errors in a run of    *)
(* the command line tool (specification SpecCli)                           *)
(***************************************************************************)
FindingFields ==
    {"type", "name", "severity", "description", "file", "line", "match",
     "context"}

\* C17: every Finding a detector contributes has the fields type, name,
\* severity, description, file, line, match and context, and so
\* format_console, which reads them, renders every aggregated list.
C17_FindingFields ==
    /\ \A c \in 1..Len(contributed) :
         \A i \in 1..Len(contributed[c].findings) :
            FindingFields \subseteq DOMAIN contributed[c].findings[i]
    /\ rendered.status /= "KeyError"

\* C18: whatever a detector does, the run gets to the rendering step: it
\* never ends before the Reporter was invoked.
C18_RenderingReached == cli_pc = "crashed" => rendered.status /= "pending"

(***************************************************************************)
(* Properties of the dependency scan (specification SpecDep)               *)
(***************************************************************************)
\* the service failed: transport error, timeout, status that is not 2xx,
\* body that is no JSON object
ServiceFailed(reply) == reply.error /= "none"

\* C19: on a transport error, a timeout, a non-2xx response or an
\* unparsable body check_vulnerability returns the empty list and
\* success = False and does not raise; scan_directory then adds no Finding
\* for that package and goes on with the next package.
C19_LookupFailureSkipped ==
    \A k \in 1..Len(lookups) :
       (lookups[k].called /\ ServiceFailed(lookups[k].reply)) =>
         /\ lookups[k].returned.raised = "none"
         /\ lookups[k].returned.vulns = <<>>
         /\ lookups[k].returned.success = FALSE
         /\ lookups[k].raised = "none"
         /\ lookups[k].appended = <<>>
         /\ IF k < Len(lookups)
            THEN lookups[k + 1].pkg = lookups[k].pkg + 1
            ELSE dep_pc \in {"loop", "returned"} /\ pkgIdx = lookups[k].pkg + 1

\* the lookup of the first package timed out, the next package with a
\* version was looked up and its advisory is the only Finding returned
C19_Witness ==
    /\ dep_pc = "returned"
    /\ Len(lookups) = 3
    /\ lookups[1].reply.error = "Timeout"
    /\ lookups[3].called
    /\ lookups[3].reply.error = "none"
    /\ Len(lookups[3].appended) = 1
    /\ dep_findings = lookups[3].appended
    /\ dep_findings[1].package = all_packages[3].name

(***************************************************************************)
(* Properties of the LLM analysis (specification SpecLlm)                  *)
(***************************************************************************)
\* both calls of the service raised
CallFailed(reply) == "error" \in DOMAIN reply.first /\ "error" \in DOMAIN reply.second

\* the texts left when a fenced code block is taken out of a text: what
\* stands between an opening fence, plain or marked json, and a later fence
Fenced(text) ==
    {SubSeq(text, a, b) :
       <<a, b>> \in {x \in (1..(Len(text) + 1)) \X (0..Len(text)) :
                       /\ x[1] <= x[2] + 1
                       /\ \/ x[1] > 3 /\ SubSeq(text, x[1] - 3, x[1] - 1) = Fence
                          \/ x[1] > 7 /\ SubSeq(text, x[1] - 7, x[1] - 1) = FenceJson
                       /\ x[2] + 3 <= Len(text)
                       /\ SubSeq(text, x[2] + 1, x[2] + 3) = Fence}}

\* a text is a JSON document, surrounded by white space at most
IsJson(text) ==
    \E d \in DOMAIN JsonDocuments :
       \E i \in 1..Len(text) :
          /\ text[i] = d
          /\ \A j \in 1..Len(text) : j /= i => text[j] \in Whitespace

\* the response cannot be parsed as JSON, with or without its fence
Unparsable(text) == ~IsJson(text) /\ \A body \in Fenced(text) : ~IsJson(body)

\* C20: when the call of the service fails, or the response is no JSON even
\* after an optional fenced code block is stripped, the LLM path returns no
\* Finding and does not raise; and every finding of a parsed response is
\* kept, with severity medium when its severity token is not one of the
\* four levels.
C20_LlmFailureYieldsNothing ==
    /\ (CallFailed(api_reply) \/ Unparsable(ResponseText(api_reply))) =>
         /\ llm_pc /= "raised"
         /\ llm_pc = "returned" =>
              llm_findings = [raised |-> "none", findings |-> <<>>]
    /\ (llm_pc = "returned" /\ api_response.value /= None) =>
         LET raw == RawFindingsIn(ResponseText(api_reply))
         IN  /\ Len(llm_findings.findings) = Len(raw)
             /\ \A i \in 1..Len(raw) :
                  SeverityToken(raw[i]) \notin Levels =>
                    llm_findings.findings[i].severity = "medium"

\* the response is a fenced block that holds no JSON document, and the scan
\* returned no Finding
C20_Witness ==
    /\ llm_pc = "returned"
    /\ "text" \in DOMAIN api_reply.first
    /\ Fenced(api_reply.first.text) /= {}
    /\ Unparsable(api_reply.first.text)
    /\ llm_findings.findings = <<>>

(***************************************************************************)
(* Further properties of the severity classifier (specification SpecSev)   *)
(***************************************************************************)
\* C27: when a record carries both a cvss_score and a severity text the
\* result is the one of the same record without the text, so the text is
\* not consulted; and the result is always critical, high, medium or low.
C27_ScoreAlone ==
    sev_pc = "returned" =>
        /\ severity \in {"critical", "high", "medium", "low"}
        /\ (HasScore /\ HasSeverityText) =>
              severity = _determine_severity(
                  [database_specific |-> [cvss_score |-> DbSpecific["cvss_score"]]])

\* the record with score 2.0 and severity text "CRITICAL" was classified low
C27_Witness ==
    /\ sev_pc = "returned"
    /\ HasScore
    /\ HasSeverityText
    /\ DbSpecific["cvss_score"] = 20
    /\ DbSpecific["severity"] = <<"C", "R", "I", "T", "I", "C", "A", "L">>
    /\ severity = "low"

(***************************************************************************)
(* Further properties of the dependency scan (specification SpecDep)       *)
(***************************************************************************)
\* C24: during one scan_directory call files_found, packages_parsed,
\* packages_checked and vulnerabilities_found never decrease; at return
\* vulnerabilities_found is the number of Findings returned and
\* packages_checked <= packages_parsed.
C24_CountersMonotone ==
    /\ [][\A key \in DOMAIN stats : stats'[key] >= stats[key]]_vars
    /\ [](dep_pc = "returned" =>
            /\ stats.vulnerabilities_found = Len(dep_findings)
            /\ stats.packages_checked <= stats.packages_parsed)

\* a scan of three packages returned: two were checked, one of them has
\* two advisories
C24_Witness ==
    /\ dep_pc = "returned"
    /\ stats.files_found = 3
    /\ stats.packages_parsed = 3
    /\ stats.packages_checked = 2
    /\ stats.vulnerabilities_found = 2
    /\ Len(dep_findings) = 2
    /\ dep_findings[1].package = dep_findings[2].package

\* the requests sent to the service in the iterations made so far
RECURSIVE Attempts(_)
Attempts(entries) ==
    IF entries = <<>>
    THEN 0
    ELSE (IF Head(entries).called THEN Head(entries).returned.requests ELSE 0)
           + Attempts(Tail(entries))

\* C25: scan_directory makes exactly one lookup attempt for each parsed
\* package that has a version, with no second attempt after a failure, and
\* none for a package without a version; packages_checked is the number of
\* attempts made, whether or not they succeeded.
C25_OneAttemptPerPackage ==
    /\ \A k \in 1..Len(lookups) :
          /\ lookups[k].pkg = k
          /\ IF all_packages[k].version = NoVersion
             THEN ~lookups[k].called
             ELSE lookups[k].called /\ lookups[k].returned.requests = 1
    /\ dep_pc = "returned" => Len(lookups) = Len(all_packages)
    /\ dep_pc \in {"loop", "returned", "raised"} =>
          stats.packages_checked = Attempts(lookups)

\* a scan returned in which one lookup failed, one succeeded and the
\* package without a version was not looked up
C25_Witness ==
    /\ dep_pc = "returned"
    /\ Len(lookups) = 3
    /\ \E i, j, k \in 1..3 :
          /\ lookups[i].called /\ lookups[i].reply.error = "HTTPError"
          /\ lookups[j].called /\ lookups[j].reply.error = "none"
          /\ ~lookups[k].called
    /\ stats.packages_checked = 2

(***************************************************************************)
(* Further properties of a run of the command line tool (SpecCli)          *)
(***************************************************************************)
\* the exit code the collected Findings give under a threshold: 1 when a
\* Finding of one of the severities was collected
ExitFor(sevs) ==
    IF \E i \in 1..Len(aggregated) : aggregated[i].severity \in sevs THEN 1 ELSE 0

\* C26: for collected Findings with canonical severities the exit code is
\* the same under the thresholds high, medium, low and all, namely 1 exactly
\* when a critical or high Finding was collected; under threshold critical
\* it is 1 exactly when a critical Finding was collected.
C26_ExitAcrossThresholds ==
    (/\ Filtered
     /\ exit_code /= -1
     /\ \A i \in 1..Len(aggregated) : aggregated[i].severity \in DOMAIN Index) =>
        exit_code = IF options.severity = "critical"
                    THEN ExitFor({"critical"})
                    ELSE ExitFor({"critical", "high"})

(***************************************************************************)
(* Further properties of the secret scan (specification Spec)              *)
(***************************************************************************)
\* C23: what scan_directory gets for a file is scan_file of that file
\* alone, whatever was scanned before it; two files with the same contents
\* get the same Findings but for the path; and the result holds for each
\* file exactly these Findings.
C23_NoCrossFileState ==
    /\ \A c \in 1..Len(returned) :
          /\ returned[c] = scan_file(calls[c], disk[calls[c]])
          /\ \A d \in 1..Len(returned) :
                disk[calls[c]] = disk[calls[d]] =>
                   returned[c] = [i \in 1..Len(returned[d]) |->
                                    [returned[d][i] EXCEPT !.file = calls[c]]]
    /\ pc = "done" =>
          \A p \in Range(listing) :
              SelectSeq(result, LAMBDA f : f.file = p) = scan_file(p, disk[p])

\* the scan is over; the same contents were scanned as the first and as the
\* second file, after a file with Findings
C23_Witness ==
    /\ pc = "done"
    /\ Len(returned) = 2
    /\ disk[calls[1]] = disk[calls[2]]
    /\ Len(returned[1]) >= 2
    /\ Len(returned[2]) = Len(returned[1])

(***************************************************************************)
(* Properties of the construction of the LLMScanner (specification SpecKey)*)
(***************************************************************************)
\* the value a config file yields: that of its gemini_api_key member
Yielded(config) ==
    IF /\ config.exists
       /\ config.error = "none"
       /\ "dict" \in DOMAIN config.json
       /\ "gemini_api_key" \in DOMAIN config.json.dict
    THEN config.json.dict["gemini_api_key"]
    ELSE None

\* what the four sources yield, in the order of their priority
Yields ==
    <<key_sources.cli, key_sources.env, Yielded(key_sources.home),
      Yielded(key_sources.local)>>

NonEmpty(value) == "str" \in DOMAIN value /\ value.str /= ""

\* C21: the resolved key is the value of the first of the command line
\* argument, GEMINI_API_KEY, the home config file and the local config file
\* that yields a non-empty value; a source that yields an empty or no value
\* is passed over; with no such source no key is resolved.
C21_FirstNonEmptySourceWins ==
    key_pc = "done" =>
        LET given == {i \in 1..4 : NonEmpty(Yields[i])}
        IN  IF given = {}
            THEN ~NonEmpty(resolved_key)
            ELSE resolved_key = Yields[CHOOSE i \in given : \A j \in given : i <= j]

(***************************************************************************)
(* Properties of the vulnerability scan (specification SpecVuln)           *)
(***************************************************************************)
\* the line   query = "SELECT * FROM users WHERE id = " + user_id
SqlLine == CodeText[1]

\* C22: a scanned line  query = "SELECT * FROM users WHERE id = " + user_id
\* has exactly one Finding, named "SQL Injection Risk", of severity high.
C22_SqlInjectionLine ==
    \A l \in 1..code_line_num :
        code_lines[l] = SqlLine =>
            LET found == SelectSeq(code_findings, LAMBDA f : f.line = l)
            IN  /\ Len(found) = 1
                /\ found[1].name = "SQL Injection Risk"
                /\ found[1].severity = "high"

====
